---------------------------- MODULE Spec2Model ----------------------------
(***************************************************************************)
(* Model of scripts/rotate_hugs_motion.py: the axis-angle / rotation-matrix *)
(* codec, the Euler composition and the main() pipeline that rotates a      *)
(* HUGS motion file (global_orient, body_pose, transl, betas).              *)
(*                                                                          *)
(* Arithmetic.  numpy's float arithmetic is modelled by exact arithmetic in *)
(* the field Q(sqrt 3): a number is <<a, b, d>>, meaning (a + b*sqrt(3))/d  *)
(* with d > 0 and gcd(a, b, d) = 1, so equal numbers are equal tuples.      *)
(* Angles (pose components, np.linalg.norm of a pose) are counted in units  *)
(* of pi/6 = 30 degrees; sin and cos of every such angle lie in the field,  *)
(* so Rodrigues' formula, the matrix products and the divisions of the code *)
(* are computed exactly as written.  Rounding (float32) is not modelled.    *)
(* The non-finite floats are the tuples with d = 0: NaN = <<0, 0, 0>>,      *)
(* +Inf = <<1, 0, 0>>, -Inf = <<-1, 0, 0>>, with IEEE 754 arithmetic.       *)
(***************************************************************************)
EXTENDS Integers, Sequences, FiniteSets, TLC

(***************************************************************************)
(* Exact numbers                                                           *)
(***************************************************************************)
Abs(n) == IF n < 0 THEN -n ELSE n

RECURSIVE GCD(_, _)
GCD(m, n) == IF n = 0 THEN m ELSE GCD(n, m % n)

\* the canonical tuple of (a + b*sqrt 3)/d, d # 0
QNorm(a, b, d) ==
    IF a = 0 /\ b = 0 THEN <<0, 0, 1>>
    ELSE LET g == GCD(GCD(Abs(a), Abs(b)), Abs(d))
             s == IF d < 0 THEN -1 ELSE 1
         IN  <<(s * a) \div g, (s * b) \div g, (s * d) \div g>>

QInt(n) == <<n, 0, 1>>
QZero == <<0, 0, 1>>
QOne == <<1, 0, 1>>
QTwo == <<2, 0, 1>>

NaN == <<0, 0, 0>>
PosInf == <<1, 0, 0>>
NegInf == <<-1, 0, 0>>

IsFinite(x) == x[3] # 0

QNeg(x) == <<-x[1], -x[2], x[3]>>

\* x + y; Inf + (-Inf) and anything + NaN are NaN
QAdd(x, y) ==
    IF x = QZero THEN y
    ELSE IF y = QZero THEN x
    ELSE IF IsFinite(x) /\ IsFinite(y)
    THEN LET g == GCD(x[3], y[3])
         IN  QNorm(x[1] * (y[3] \div g) + y[1] * (x[3] \div g),
                   x[2] * (y[3] \div g) + y[2] * (x[3] \div g),
                   (x[3] \div g) * y[3])
    ELSE IF x = NaN \/ y = NaN THEN NaN
    ELSE IF IsFinite(x) THEN y
    ELSE IF IsFinite(y) \/ x = y THEN x
    ELSE NaN

QSub(x, y) == QAdd(x, QNeg(y))

\* the sign of a + b*sqrt 3 (sqrt 3 is irrational: a*a = 3*b*b only at 0);
\* the sign of +Inf is 1, of -Inf is -1, NaN has none (0)
QSign(x) ==
    LET a == x[1]
        b == x[2]
    IN  IF a = 0 /\ b = 0 THEN 0
        ELSE IF a >= 0 /\ b >= 0 THEN 1
        ELSE IF a <= 0 /\ b <= 0 THEN -1
        ELSE IF a > 0 THEN (IF a * a > 3 * b * b THEN 1 ELSE -1)
        ELSE (IF 3 * b * b > a * a THEN 1 ELSE -1)

\* x * y; 0 * Inf and anything * NaN are NaN
QMul(x, y) ==
    IF IsFinite(x) /\ IsFinite(y)
    THEN IF x = QZero \/ y = QZero THEN QZero
         ELSE IF x = QOne THEN y
         ELSE IF y = QOne THEN x
         ELSE QNorm(x[1] * y[1] + 3 * x[2] * y[2], x[1] * y[2] + x[2] * y[1], x[3] * y[3])
    ELSE IF QSign(x) * QSign(y) = 0 THEN NaN
    ELSE IF QSign(x) * QSign(y) > 0 THEN PosInf
    ELSE NegInf

\* 1/x: for finite x # 0 multiply by the conjugate a - b*sqrt 3;
\* 1/0 = Inf, 1/Inf = 0, 1/NaN = NaN
QInv(x) ==
    IF x = NaN THEN NaN
    ELSE IF ~IsFinite(x) THEN QZero
    ELSE IF x = QZero THEN PosInf
    ELSE QNorm(x[1] * x[3], -(x[2] * x[3]), x[1] * x[1] - 3 * x[2] * x[2])

QDiv(x, y) == IF y = QOne THEN x ELSE QMul(x, QInv(y))

\* x < y; false whenever x or y is NaN
QLess(x, y) == QSign(QSub(x, y)) < 0

QAbs(x) == IF QSign(x) < 0 THEN QNeg(x) ELSE x


(***************************************************************************)
(* eps = 1e-8, the default of axis_angle_to_rotmat and rotmat_to_axis_angle, *)
(* kept as its reciprocal.  x < eps is decided exactly: a positive          *)
(* (a + b*sqrt 3)/d is at least 1/(d*(|a| + 2|b|)), because                 *)
(* |a*a - 3*b*b| >= 1 and |a - b*sqrt 3| <= |a| + 2|b|; a rational 1/d is   *)
(* below eps when d > 1/eps.  NaN < eps is false.                           *)
(***************************************************************************)
EpsInv == 100000000
Eps == <<1, 0, EpsInv>>

QLtEps(x) ==
    IF ~IsFinite(x) THEN x = NegInf
    ELSE CASE QSign(x) <= 0 -> TRUE
           [] QSign(x) > 0 /\ x[3] * (Abs(x[1]) + 2 * Abs(x[2])) <= EpsInv -> FALSE
           [] x[1] = 1 /\ x[2] = 0 /\ x[3] > EpsInv -> TRUE

\* np.clip(x, eps, None)
ClipEps(x) == IF QLtEps(x) THEN Eps ELSE x

\* np.clip(x, -1.0, 1.0)
ClipUnit(x) ==
    IF QLess(x, QNeg(QOne)) THEN QNeg(QOne)
    ELSE IF QLess(QOne, x) THEN QOne
    ELSE x

(***************************************************************************)
(* Angles in units of pi/6.  CosTab[n + 1] = cos(n * pi/6), n = 0..11.      *)
(***************************************************************************)
CosTab ==
    << <<1, 0, 1>>, <<0, 1, 2>>, <<1, 0, 2>>, <<0, 0, 1>>,
       <<-1, 0, 2>>, <<0, -1, 2>>, <<-1, 0, 1>>, <<0, -1, 2>>,
       <<-1, 0, 2>>, <<0, 0, 1>>, <<1, 0, 2>>, <<0, 1, 2>> >>

FullTurn == Len(CosTab)
HalfTurn == FullTurn \div 2
QuarterTurn == FullTurn \div 4

IsAngle(x) == x[2] = 0 /\ x[3] = 1

\* np.cos, np.sin of an angle that is a whole number of units; NaN for a
\* non-finite argument
Cos(x) ==
    IF ~IsFinite(x) THEN NaN
    ELSE CASE IsAngle(x) -> CosTab[(x[1] % FullTurn) + 1]

Sin(x) ==
    IF ~IsFinite(x) THEN NaN
    ELSE CASE IsAngle(x) -> CosTab[((x[1] + FullTurn - QuarterTurn) % FullTurn) + 1]

\* np.arccos: the angle in [0, pi] with the given cosine; NaN for NaN
ArcCos(c) ==
    IF c = NaN THEN NaN
    ELSE QInt(CHOOSE n \in 0..HalfTurn : CosTab[n + 1] = c)

\* np.deg2rad / np.radians of a whole number of degrees
Deg2Rad(deg) == QNorm(deg, 0, 360 \div FullTurn)

(***************************************************************************)
(* Vectors <<x, y, z>> and 3x3 matrices <<row1, row2, row3>>                *)
(***************************************************************************)
Idx3 == 1..3

MaxRoot == 40
ISqrt(n) == CHOOSE r \in 0..MaxRoot : r * r = n

\* sqrt of a non-negative rational whose numerator and denominator are
\* squares; sqrt(Inf) = Inf, sqrt(NaN) = NaN
QSqrt(x) ==
    IF ~IsFinite(x) THEN x
    ELSE CASE x[2] = 0 -> QNorm(ISqrt(x[1]), 0, ISqrt(x[3]))

Dot(u, v) == QAdd(QAdd(QMul(u[1], v[1]), QMul(u[2], v[2])), QMul(u[3], v[3]))

\* np.linalg.norm(v, axis=-1) = sqrt(x*x + y*y + z*z); with a single non-zero
\* component c this is |c|, taken directly so that c*c need not be formed
Norm(v) ==
    IF v[2] = QZero /\ v[3] = QZero THEN QAbs(v[1])
    ELSE IF v[1] = QZero /\ v[3] = QZero THEN QAbs(v[2])
    ELSE IF v[1] = QZero /\ v[2] = QZero THEN QAbs(v[3])
    ELSE QSqrt(Dot(v, v))

VScale(c, v) == << QMul(c, v[1]), QMul(c, v[2]), QMul(c, v[3]) >>
VDivS(v, c) == << QDiv(v[1], c), QDiv(v[2], c), QDiv(v[3], c) >>
VAdd(u, v) == << QAdd(u[1], v[1]), QAdd(u[2], v[2]), QAdd(u[3], v[3]) >>
VSub(u, v) == << QSub(u[1], v[1]), QSub(u[2], v[2]), QSub(u[3], v[3]) >>
ZeroVec == <<QZero, QZero, QZero>>

Eye3 == << <<QOne, QZero, QZero>>, <<QZero, QOne, QZero>>, <<QZero, QZero, QOne>> >>

\* A @ B
MatMul(A, B) ==
    LET E(i, j) ==
            QAdd(QAdd(QMul(A[i][1], B[1][j]), QMul(A[i][2], B[2][j])), QMul(A[i][3], B[3][j]))
    IN  << <<E(1, 1), E(1, 2), E(1, 3)>>,
           <<E(2, 1), E(2, 2), E(2, 3)>>,
           <<E(3, 1), E(3, 2), E(3, 3)>> >>

\* A.T
Transpose(A) ==
    << <<A[1][1], A[2][1], A[3][1]>>,
       <<A[1][2], A[2][2], A[3][2]>>,
       <<A[1][3], A[2][3], A[3][3]>> >>

\* A @ v for a column vector v
MatVec(A, v) == << Dot(A[1], v), Dot(A[2], v), Dot(A[3], v) >>

MatAdd(A, B) == << VAdd(A[1], B[1]), VAdd(A[2], B[2]), VAdd(A[3], B[3]) >>
MatScale(c, A) == << VScale(c, A[1]), VScale(c, A[2]), VScale(c, A[3]) >>
Trace(A) == QAdd(QAdd(A[1][1], A[2][2]), A[3][3])

(***************************************************************************)
(* axis_angle_to_rotmat for one element of the batch                       *)
(***************************************************************************)
\* mutant: the cross-product matrix with its signs exchanged
SkewTransposed(axis) ==
    << <<QZero, axis[3], QNeg(axis[2])>>,
       <<QNeg(axis[3]), QZero, axis[1]>>,
       <<axis[2], QNeg(axis[1]), QZero>> >>

Skew(axis) ==
    << <<QZero, QNeg(axis[3]), axis[2]>>,
       <<axis[3], QZero, QNeg(axis[1])>>,
       <<QNeg(axis[2]), axis[1], QZero>> >>

\* mutant: the last term of the formula with K in place of K @ K
RodriguesNoSquare(aa) ==
    LET angle == Norm(aa)
        axis == VDivS(aa, ClipEps(angle))
        K == Skew(axis)
    IN  MatAdd(MatAdd(Eye3, MatScale(Sin(angle), K)),
               MatScale(QSub(QOne, Cos(angle)), K))

Rodrigues(aa) ==
    LET angle == Norm(aa)
        axis == VDivS(aa, ClipEps(angle))
        K == Skew(axis)
    IN  MatAdd(MatAdd(Eye3, MatScale(Sin(angle), K)),
               MatScale(QSub(QOne, Cos(angle)), MatMul(K, K)))

\* mutant: a norm that is not finite treated like a norm below eps
axis_angle_to_rotmat_sanitized(aa) ==
    IF QLtEps(Norm(aa)) \/ ~IsFinite(Norm(aa)) THEN Eye3 ELSE Rodrigues(aa)

\* small = angle < eps; R[small] = I[small]
axis_angle_to_rotmat(aa) ==
    IF QLtEps(Norm(aa)) THEN Eye3 ELSE Rodrigues(aa)

(***************************************************************************)
(* rotmat_to_axis_angle for one element of the batch                       *)
(***************************************************************************)
\* mutant: the antisymmetric part divided by sin instead of 2 sin
rotmat_to_axis_angle_undivided(rotmat) ==
    LET cos_angle == ClipUnit(QDiv(QSub(Trace(rotmat), QOne), QTwo))
        angle == ArcCos(cos_angle)
        raw == << QSub(rotmat[3][2], rotmat[2][3]),
                  QSub(rotmat[1][3], rotmat[3][1]),
                  QSub(rotmat[2][1], rotmat[1][2]) >>
        sin_angle == Sin(angle)
        small == QLtEps(QAbs(sin_angle))
        scaled == VDivS(raw, IF small THEN QOne ELSE sin_angle)
        axis == IF small THEN ZeroVec ELSE scaled
    IN  VScale(angle, axis)

\* mutant: the axis divided by 2 sin whatever the size of sin
rotmat_to_axis_angle_unguarded(rotmat) ==
    LET cos_angle == ClipUnit(QDiv(QSub(Trace(rotmat), QOne), QTwo))
        angle == ArcCos(cos_angle)
        raw == << QSub(rotmat[3][2], rotmat[2][3]),
                  QSub(rotmat[1][3], rotmat[3][1]),
                  QSub(rotmat[2][1], rotmat[1][2]) >>
        sin_angle == Sin(angle)
        axis == VDivS(raw, QMul(QTwo, sin_angle))
    IN  VScale(angle, axis)

rotmat_to_axis_angle(rotmat) ==
    LET cos_angle == ClipUnit(QDiv(QSub(Trace(rotmat), QOne), QTwo))
        angle == ArcCos(cos_angle)
        raw == << QSub(rotmat[3][2], rotmat[2][3]),
                  QSub(rotmat[1][3], rotmat[3][1]),
                  QSub(rotmat[2][1], rotmat[1][2]) >>
        sin_angle == Sin(angle)
        small == QLtEps(QAbs(sin_angle))
        scaled == VDivS(raw, QMul(QTwo, IF small THEN QOne ELSE sin_angle))
        axis == IF small THEN ZeroVec ELSE scaled
    IN  VScale(angle, axis)

(***************************************************************************)
(* euler_xyz_to_rotmat(rx, ry, rz), angles in units of pi/6                 *)
(***************************************************************************)
ElemRx(rx) ==
    << <<QOne, QZero, QZero>>,
       <<QZero, Cos(rx), QNeg(Sin(rx))>>,
       <<QZero, Sin(rx), Cos(rx)>> >>

\* mutant: the rotation about Y with the sign of its sines exchanged
ElemRyTransposed(ry) ==
    << <<Cos(ry), QZero, QNeg(Sin(ry))>>,
       <<QZero, QOne, QZero>>,
       <<Sin(ry), QZero, Cos(ry)>> >>

ElemRy(ry) ==
    << <<Cos(ry), QZero, Sin(ry)>>,
       <<QZero, QOne, QZero>>,
       <<QNeg(Sin(ry)), QZero, Cos(ry)>> >>

ElemRz(rz) ==
    << <<Cos(rz), QNeg(Sin(rz)), QZero>>,
       <<Sin(rz), Cos(rz), QZero>>,
       <<QZero, QZero, QOne>> >>

\* mutant: the composition in the opposite order
euler_xyz_to_rotmat_reversed(rx, ry, rz) == MatMul(MatMul(ElemRx(rx), ElemRy(ry)), ElemRz(rz))

euler_xyz_to_rotmat(rx, ry, rz) == MatMul(MatMul(ElemRz(rz), ElemRy(ry)), ElemRx(rx))

(***************************************************************************)
(* Arrays.  A 2-d array is a sequence of rows of equal width.               *)
(***************************************************************************)
NumJoints == 24

Rows(A) == Len(A)
Width(A) == IF Len(A) = 0 THEN 0 ELSE Len(A[1])

\* np.concatenate([A, B], axis=1) raises ValueError unless the row counts agree
CanConcatenate(A, B) == Rows(A) = Rows(B)
Concatenate(A, B) == [t \in 1..Rows(A) |-> A[t] \o B[t]]

\* element k (1-based) of the row-major flattening of A
FlatAt(A, k) == A[((k - 1) \div Width(A)) + 1][((k - 1) % Width(A)) + 1]

\* A.reshape(-1, 24, 3) raises ValueError unless the size is a multiple of 72
CanReshape(A) == (Rows(A) * Width(A)) % (NumJoints * 3) = 0
Reshape(A) ==
    [n \in 1..((Rows(A) * Width(A)) \div (NumJoints * 3)) |->
        [j \in 1..NumJoints |->
            [c \in Idx3 |-> FlatAt(A, ((n - 1) * NumJoints + (j - 1)) * 3 + c)]]]

\* mutant: the (24, 3) block of a frame written out component-major
FlattenRowsComponentMajor(P) ==
    [n \in 1..Len(P) |->
        [k \in 1..(NumJoints * 3) |->
            P[n][((k - 1) % NumJoints) + 1][((k - 1) \div NumJoints) + 1]]]

\* P.reshape(P.shape[0], -1) of an (N, 24, 3) array
FlattenRows(P) ==
    [n \in 1..Len(P) |->
        [k \in 1..(NumJoints * 3) |-> P[n][((k - 1) \div 3) + 1][((k - 1) % 3) + 1]]]

\* mutant: the tail taken from the third column on
TailColsOverlapping(A) == [n \in 1..Len(A) |-> SubSeq(A[n], 3, Len(A[n]))]

\* A[:, :3] and A[:, 3:]
HeadCols(A) == [n \in 1..Len(A) |-> SubSeq(A[n], 1, 3)]
TailCols(A) == [n \in 1..Len(A) |-> SubSeq(A[n], 4, Len(A[n]))]

\* mutant: the near-zero policy applied to the whole batch at once
DecodeAllShortCircuit(P) ==
    IF \E n \in 1..Len(P) : \E j \in 1..NumJoints : QLtEps(Norm(P[n][j]))
    THEN [n \in 1..Len(P) |-> [j \in 1..NumJoints |-> Eye3]]
    ELSE [n \in 1..Len(P) |-> [j \in 1..NumJoints |-> axis_angle_to_rotmat(P[n][j])]]

\* the batched codec and the broadcast conjugation R_fix @ rotmats @ R_fix.T
DecodeAll(P) == [n \in 1..Len(P) |-> [j \in 1..NumJoints |-> axis_angle_to_rotmat(P[n][j])]]
EncodeAll(M) == [n \in 1..Len(M) |-> [j \in 1..NumJoints |-> rotmat_to_axis_angle(M[n][j])]]
\* mutant: the inverse change of basis, R_fix.T @ rotmats @ R_fix
ConjugateInverse(R, M) == MatMul(MatMul(Transpose(R), M), R)
Conjugate(R, M) == MatMul(MatMul(R, M), Transpose(R))
ConjugateAll(R, M) == [n \in 1..Len(M) |-> [j \in 1..NumJoints |-> Conjugate(R, M[n][j])]]

\* A.T and A @ B for 2-d arrays of any shape
Transpose2D(A) == [c \in 1..Width(A) |-> [r \in 1..Rows(A) |-> A[r][c]]]

RECURSIVE InnerSum(_, _, _, _, _)
InnerSum(A, B, i, j, k) ==
    IF k = 0 THEN QZero ELSE QAdd(InnerSum(A, B, i, j, k - 1), QMul(A[i][k], B[k][j]))

MatMul2D(A, B) ==
    [i \in 1..Rows(A) |-> [j \in 1..Width(B) |-> InnerSum(A, B, i, j, Rows(B))]]

\* mutant: transl @ R_fix
RotateTranslRight(R, tr) == MatMul2D(tr, R)

\* mutant: every rotated translation taken relative to that of the first frame
RotateTranslRelative(R, tr) ==
    LET rot == Transpose2D(MatMul2D(R, Transpose2D(tr)))
    IN  [t \in 1..Len(rot) |-> [c \in Idx3 |-> QSub(rot[t][c], rot[1][c])]]

\* (R_fix @ transl.T).T
RotateTransl(R, tr) == Transpose2D(MatMul2D(R, Transpose2D(tr)))

RECURSIVE ColSum(_, _, _)
ColSum(A, c, n) == IF n = 0 THEN QZero ELSE QAdd(ColSum(A, c, n - 1), A[n][c])

\* A.mean(axis=0, keepdims=True)
MeanRows(A) == [c \in Idx3 |-> QDiv(ColSum(A, c, Len(A)), QInt(Len(A)))]

\* mutant: the first frame subtracted instead of the mean
CenterOnFirstFrame(A) == [t \in 1..Len(A) |-> VSub(A[t], A[1])]

\* transl_new - transl_new.mean(axis=0, keepdims=True)
CenterTransl(A) == LET m == MeanRows(A) IN [t \in 1..Len(A) |-> VSub(A[t], m)]

\* transl_new + np.array([tx, ty, tz])
OffsetTransl(A, off) == [t \in 1..Len(A) |-> VAdd(A[t], off)]

(***************************************************************************)
(* main() of rotate_hugs_motion.py                                         *)
(***************************************************************************)
VARIABLES
    pc,             \* position in main()
    args,           \* parsed command line: rx, ry, rz (degrees), center, tx, ty, tz
    input,          \* the arrays of the input .npz file
    global_orient,  \* locals of main() ...
    body_pose,
    transl,
    betas,
    poses,
    rotmats,
    R_fix,
    poses_aa,
    transl_new,
    out,            \* the arrays of the output .npz file, <<>> until saved
    \* the pipeline scripts run_text2hugs.py and run_mdm2hugs.py
    fs,                 \* the files the scripts look at and write
    clock,              \* the time, in ticks
    started,            \* the subprocesses started so far, with their exit codes
    executed_commands,  \* local of main() in run_text2hugs.py
    results_npy,        \* local of main(): the results.npy found
    before_hugs,        \* local of main(): the time before the render
    final_mp4,          \* local of main()
    exit_status         \* the exit status of the script, <<>> while it runs

pipeVars == <<fs, clock, started, executed_commands, results_npy, before_hugs,
              final_mp4, exit_status>>

vars == <<pc, args, input, global_orient, body_pose, transl, betas, poses,
          rotmats, R_fix, poses_aa, transl_new, out, fs, clock, started,
          executed_commands, results_npy, before_hugs, final_mp4, exit_status>>

Unset == <<>>

\* no pipeline script is running
PipeIdle ==
    /\ fs = Unset /\ clock = 0 /\ started = <<>> /\ executed_commands = <<>>
    /\ results_npy = Unset /\ before_hugs = Unset /\ final_mp4 = Unset
    /\ exit_status = Unset

\* integer vectors and arrays as exact numbers
QVec(v) == [i \in 1..Len(v) |-> QInt(v[i])]

(***************************************************************************)
(* Inputs.  A run is fixed by its command line and its input file.  The     *)
(* input files are all-zero pose arrays with one probe pose pv at frame pt, *)
(* joint pj (joint 0 is global_orient, joints 1..23 are body_pose).         *)
(***************************************************************************)
MaxT == 2       \* frames per array
MaxK == 13      \* largest pose component, in units of pi/6 (12 is a full turn)

Unit(i, k) == [c \in Idx3 |-> IF c = i THEN k ELSE 0]

AxisVals == {Unit(i, k) : i \in Idx3, k \in (-MaxK)..MaxK}

\* poses about oblique axes whose norm is a whole number of units
ObliqueVals ==
    { <<3, 4, 0>>, <<0, -4, 3>>, <<2, 1, 2>>, <<-1, 2, -2>>,
      <<4, 4, 2>>, <<2, 3, 6>>, <<6, 8, 0>> }

PoseVals == AxisVals \cup ObliqueVals

SweepVals == { <<0, 0, 3>>, <<3, 4, 0>>, <<0, 6, 0>> }

\* (rx, ry, rz) in degrees
RotArgs ==
    { <<0, 0, 0>>, <<-90, 0, 0>>, <<0, 90, 0>>, <<0, 0, 90>>, <<90, 90, 0>>,
      <<90, 0, 180>>, <<30, 60, 90>>, <<0, 30, 0>> }

SweepRots == { <<0, 0, 0>>, <<-90, 0, 0>>, <<30, 60, 90>> }

TranslVals == { <<1, 0, 0>>, <<3, -1, 2>> }
OffsetVals == { <<0, 0, 0>>, <<1, -2, 3>> }
BetasVals == { [i \in 1..10 |-> 0], [i \in 1..10 |-> i - 4] }

Ramp(T) == [t \in 1..T |-> <<t, 0, 2 * t>>]

BodyWidth == 3 * (NumJoints - 1)

\* every joint position, a few poses and rotations
PositionRuns ==
    { [Tg |-> T, Tb |-> T, Wb |-> BodyWidth, kind |-> "int", nv |-> <<0, 0, 0>>,
       pt |-> t, pj |-> j, pv |-> v, rot |-> r, tr |-> Ramp(T), center |-> FALSE, off |-> <<0, 0, 0>>,
       betas |-> [i \in 1..10 |-> 0]] :
      T \in 1..MaxT, t \in 1..MaxT, j \in 0..(NumJoints - 1),
      v \in SweepVals, r \in SweepRots }

\* every pose and rotation, at the first and the last joint
ValueRuns ==
    { [Tg |-> 1, Tb |-> 1, Wb |-> BodyWidth, kind |-> "int", nv |-> <<0, 0, 0>>,
       pt |-> 1, pj |-> j, pv |-> v, rot |-> r, tr |-> Ramp(1), center |-> FALSE, off |-> <<0, 0, 0>>,
       betas |-> [i \in 1..10 |-> 0]] :
      j \in {0, NumJoints - 1}, v \in PoseVals, r \in RotArgs }

TranslSeqs == UNION { [1..T -> TranslVals] : T \in 1..MaxT }

\* every translation, centering flag, offset and betas
TranslRuns ==
    { [Tg |-> Len(tr), Tb |-> Len(tr), Wb |-> BodyWidth, kind |-> "int", nv |-> <<0, 0, 0>>,
       pt |-> 1, pj |-> 0, pv |-> <<0, 0, 0>>, rot |-> r, tr |-> tr, center |-> c, off |-> o, betas |-> b] :
      tr \in TranslSeqs, c \in BOOLEAN, o \in OffsetVals, b \in BetasVals,
      r \in { <<0, 90, 0>>, <<30, 60, 90>> } }

\* every combination of array lengths
ShapeRuns ==
    { [Tg |-> Tg, Tb |-> Tb, Wb |-> BodyWidth, kind |-> "int", nv |-> <<0, 0, 0>>,
       pt |-> 1, pj |-> 0, pv |-> <<0, 0, 3>>, rot |-> <<0, 90, 0>>, tr |-> Ramp(Tt), center |-> c, off |-> <<0, 0, 0>>,
       betas |-> [i \in 1..10 |-> 0]] :
      Tg \in 1..MaxT, Tb \in 1..MaxT, Tt \in 1..MaxT, c \in BOOLEAN }

\* the direction of a probe pose that is not a whole number of units
SignVals == { <<1, 0, 0>>, <<0, -1, 0>>, <<0, 0, 1>>, <<1, -1, 0>> }

\* probe poses with NaN or Inf components, and of a norm below eps, next to
\* an ordinary pose nv at joint NeighbourJoint of the same frame
SpecialRuns ==
    { [Tg |-> T, Tb |-> T, Wb |-> BodyWidth, kind |-> k, nv |-> <<2, -1, 2>>,
       pt |-> t, pj |-> j, pv |-> v, rot |-> r, tr |-> Ramp(T),
       center |-> FALSE, off |-> <<0, 0, 0>>, betas |-> [i \in 1..10 |-> 0]] :
      T \in 1..MaxT, t \in 1..MaxT, j \in {0, 1, NumJoints - 1},
      k \in {"nan", "inf", "tiny"}, v \in SignVals, r \in SweepRots }

\* the length of betas in a HUGS motion file
NumBetas == 10

\* body_pose rows of other widths than 69, betas of other lengths than 10
WidthVals == { BodyWidth - 48, BodyWidth - 36, BodyWidth - 3, BodyWidth, BodyWidth + 72 }

WidthRuns ==
    { [Tg |-> T, Tb |-> T, Wb |-> w, kind |-> "int", nv |-> <<0, 0, 0>>,
       pt |-> 1, pj |-> j, pv |-> <<0, 0, 3>>, rot |-> <<0, 90, 0>>, tr |-> Ramp(T),
       center |-> FALSE, off |-> <<0, 0, 0>>, betas |-> [i \in 1..nb |-> 0]] :
      T \in 1..MaxT, w \in WidthVals, j \in {0, 2},
      nb \in {NumBetas - 1, NumBetas, NumBetas + 1} }

Runs ==
    { s \in PositionRuns : s.pt <= s.Tg } \cup ValueRuns \cup TranslRuns \cup ShapeRuns
        \cup { s \in SpecialRuns : s.pt <= s.Tg /\ (s.kind = "tiny" => s.pv[1] * s.pv[2] = 0) }

\* a norm below eps = 1e-8, whether counted in radians or in units of pi/6
Tiny == <<1, 0, 2 * EpsInv>>

\* component c of a probe pose as a float
ProbeNum(kind, c) ==
    CASE kind = "int" -> QInt(c)
      [] kind = "tiny" -> QMul(QInt(c), Tiny)
      [] kind = "nan" -> IF c = 0 THEN QZero ELSE NaN
      [] kind = "inf" -> IF c = 0 THEN QZero ELSE IF c > 0 THEN PosInf ELSE NegInf

MkGlobalOrient(s) ==
    [t \in 1..s.Tg |->
        IF t = s.pt /\ s.pj = 0
        THEN [c \in Idx3 |-> ProbeNum(s.kind, s.pv[c])] ELSE ZeroVec]

NeighbourJoint == NumJoints - 2

MkBodyPose(s) ==
    [t \in 1..s.Tb |->
        [k \in 1..s.Wb |->
            IF t = s.pt /\ s.pj >= 1 /\ ((k - 1) \div 3) + 1 = s.pj
            THEN ProbeNum(s.kind, s.pv[((k - 1) % 3) + 1])
            ELSE IF t = s.pt /\ ((k - 1) \div 3) + 1 = NeighbourJoint
            THEN QInt(s.nv[((k - 1) % 3) + 1])
            ELSE QZero]]

MkInput(s) ==
    [global_orient |-> MkGlobalOrient(s),
     body_pose |-> MkBodyPose(s),
     transl |-> [t \in 1..Len(s.tr) |-> QVec(s.tr[t])],
     betas |-> QVec(s.betas)]

MkArgs(s) ==
    [rx |-> s.rot[1], ry |-> s.rot[2], rz |-> s.rot[3], center |-> s.center,
     tx |-> s.off[1], ty |-> s.off[2], tz |-> s.off[3]]

Init ==
    /\ \E s \in Runs : args = MkArgs(s) /\ input = MkInput(s)
    /\ pc = "load"
    /\ global_orient = Unset /\ body_pose = Unset /\ transl = Unset /\ betas = Unset
    /\ poses = Unset /\ rotmats = Unset /\ R_fix = Unset /\ poses_aa = Unset
    /\ transl_new = Unset /\ out = Unset
    /\ PipeIdle

\* lines 95-99: np.load and the four astype(np.float32) copies
Load ==
    /\ pc = "load"
    /\ global_orient' = input.global_orient
    /\ body_pose' = input.body_pose
    /\ transl' = input.transl
    /\ betas' = input.betas
    /\ pc' = "concat"
    /\ UNCHANGED <<args, input, poses, rotmats, R_fix, poses_aa, transl_new, out>>
    /\ UNCHANGED pipeVars

\* line 101: concatenate and reshape; either raises ValueError on a bad shape
ConcatReshape ==
    /\ pc = "concat"
    /\ IF CanConcatenate(global_orient, body_pose)
          /\ CanReshape(Concatenate(global_orient, body_pose))
       THEN /\ poses' = Reshape(Concatenate(global_orient, body_pose))
            /\ pc' = "decode"
       ELSE /\ poses' = poses
            /\ pc' = "error"
    /\ UNCHANGED <<args, input, global_orient, body_pose, transl, betas, rotmats,
                   R_fix, poses_aa, transl_new, out>>
    /\ UNCHANGED pipeVars

\* line 102
Decode ==
    /\ pc = "decode"
    /\ rotmats' = DecodeAll(poses)
    /\ pc' = "rfix"
    /\ UNCHANGED <<args, input, global_orient, body_pose, transl, betas, poses,
                   R_fix, poses_aa, transl_new, out>>
    /\ UNCHANGED pipeVars

\* lines 104-107
MakeRfix ==
    /\ pc = "rfix"
    /\ R_fix' = euler_xyz_to_rotmat(Deg2Rad(args.rx), Deg2Rad(args.ry), Deg2Rad(args.rz))
    /\ pc' = "conj"
    /\ UNCHANGED <<args, input, global_orient, body_pose, transl, betas, poses,
                   rotmats, poses_aa, transl_new, out>>
    /\ UNCHANGED pipeVars

\* line 108
ConjugateStep ==
    /\ pc = "conj"
    /\ rotmats' = ConjugateAll(R_fix, rotmats)
    /\ pc' = "encode"
    /\ UNCHANGED <<args, input, global_orient, body_pose, transl, betas, poses,
                   R_fix, poses_aa, transl_new, out>>
    /\ UNCHANGED pipeVars

\* line 110
Encode ==
    /\ pc = "encode"
    /\ poses_aa' = FlattenRows(EncodeAll(rotmats))
    /\ pc' = "transl"
    /\ UNCHANGED <<args, input, global_orient, body_pose, transl, betas, poses,
                   rotmats, R_fix, transl_new, out>>
    /\ UNCHANGED pipeVars

\* mutant: the translation rotated in place, in the loaded array
RotateStepInPlace ==
    /\ pc = "transl"
    /\ transl' = RotateTransl(R_fix, transl)
    /\ transl_new' = transl'
    /\ pc' = "center"
    /\ UNCHANGED <<args, input, global_orient, body_pose, betas, poses,
                   rotmats, R_fix, poses_aa, out>>
    /\ UNCHANGED pipeVars

\* line 114
RotateStep ==
    /\ pc = "transl"
    /\ transl_new' = RotateTransl(R_fix, transl)
    /\ pc' = "center"
    /\ UNCHANGED <<args, input, global_orient, body_pose, transl, betas, poses,
                   rotmats, R_fix, poses_aa, out>>
    /\ UNCHANGED pipeVars

\* lines 115-116
CenterStep ==
    /\ pc = "center"
    /\ transl_new' = IF args.center THEN CenterTransl(transl_new) ELSE transl_new
    /\ pc' = "offset"
    /\ UNCHANGED <<args, input, global_orient, body_pose, transl, betas, poses,
                   rotmats, R_fix, poses_aa, out>>
    /\ UNCHANGED pipeVars

\* mutant: the mean subtracted after the offset is added
OffsetThenCenter ==
    /\ pc = "offset"
    /\ transl_new' =
          IF args.center
          THEN CenterTransl(OffsetTransl(transl_new, QVec(<<args.tx, args.ty, args.tz>>)))
          ELSE OffsetTransl(transl_new, QVec(<<args.tx, args.ty, args.tz>>))
    /\ pc' = "save"
    /\ UNCHANGED <<args, input, global_orient, body_pose, transl, betas, poses,
                   rotmats, R_fix, poses_aa, out>>
    /\ UNCHANGED pipeVars

\* line 117
OffsetStep ==
    /\ pc = "offset"
    /\ transl_new' = OffsetTransl(transl_new, QVec(<<args.tx, args.ty, args.tz>>))
    /\ pc' = "save"
    /\ UNCHANGED <<args, input, global_orient, body_pose, transl, betas, poses,
                   rotmats, R_fix, poses_aa, out>>
    /\ UNCHANGED pipeVars

\* mutant: default betas written instead of the loaded ones
SaveDefaultBetas ==
    /\ pc = "save"
    /\ out' = [global_orient |-> HeadCols(poses_aa),
               body_pose |-> TailCols(poses_aa),
               transl |-> transl_new,
               betas |-> [i \in 1..Len(betas) |-> QZero]]
    /\ pc' = "done"
    /\ UNCHANGED <<args, input, global_orient, body_pose, transl, betas, poses,
                   rotmats, R_fix, poses_aa, transl_new>>
    /\ UNCHANGED pipeVars

\* lines 111-112 and 119-128: split poses_aa, build the output arrays, np.savez
Save ==
    /\ pc = "save"
    /\ out' = [global_orient |-> HeadCols(poses_aa),
               body_pose |-> TailCols(poses_aa),
               transl |-> transl_new,
               betas |-> betas]
    /\ pc' = "done"
    /\ UNCHANGED <<args, input, global_orient, body_pose, transl, betas, poses,
                   rotmats, R_fix, poses_aa, transl_new>>
    /\ UNCHANGED pipeVars

Next ==
    \/ Load
    \/ ConcatReshape
    \/ Decode
    \/ MakeRfix
    \/ ConjugateStep
    \/ Encode
    \/ RotateStep
    \/ CenterStep
    \/ OffsetStep
    \/ Save

Spec == Init /\ [][Next]_vars

\* main() on input files of every shape: array lengths that disagree,
\* body_pose rows of any width, betas of any length
InitShapes ==
    /\ \E s \in WidthRuns \cup ShapeRuns : args = MkArgs(s) /\ input = MkInput(s)
    /\ pc = "load"
    /\ global_orient = Unset /\ body_pose = Unset /\ transl = Unset /\ betas = Unset
    /\ poses = Unset /\ rotmats = Unset /\ R_fix = Unset /\ poses_aa = Unset
    /\ transl_new = Unset /\ out = Unset
    /\ PipeIdle

SpecShapes == InitShapes /\ [][Next]_vars

\* main() on the input files used to compare two runs frame by frame
FrameRuns ==
    TranslRuns
        \cup { s \in PositionRuns : s.pt <= s.Tg /\ s.pj \in {0, NumJoints - 1} }
        \cup { s \in SpecialRuns : s.pt <= s.Tg /\ s.pj = 1 /\ s.pv = <<0, -1, 0>> }

InitFrames ==
    /\ \E s \in FrameRuns : args = MkArgs(s) /\ input = MkInput(s)
    /\ pc = "load"
    /\ global_orient = Unset /\ body_pose = Unset /\ transl = Unset /\ betas = Unset
    /\ poses = Unset /\ rotmats = Unset /\ R_fix = Unset /\ poses_aa = Unset
    /\ transl_new = Unset /\ out = Unset
    /\ PipeIdle

SpecFrames == InitFrames /\ [][Next]_vars

(***************************************************************************)
(* adjust_translation() of adjust_motion_translation.py.  The scipy calls   *)
(* are modelled by what scipy documents: from_rotvec and from_euler give    *)
(* the rotation of a rotation vector and of an angle about Y, * composes    *)
(* (the right operand acts first), as_rotvec gives the rotation vector of   *)
(* angle in [0, pi].  Rotations are kept as matrices.                       *)
(***************************************************************************)
\* R.from_rotvec(rotvec)
from_rotvec(rotvec) ==
    LET angle == Norm(rotvec)
        K == Skew(VDivS(rotvec, angle))
    IN  IF angle = QZero THEN Eye3
        ELSE MatAdd(MatAdd(Eye3, MatScale(Sin(angle), K)),
                    MatScale(QSub(QOne, Cos(angle)), MatMul(K, K)))

\* R.from_euler('y', deg, degrees=True)
from_euler_y(deg) ==
    LET a == Deg2Rad(deg)
    IN  << <<Cos(a), QZero, Sin(a)>>,
           <<QZero, QOne, QZero>>,
           <<QNeg(Sin(a)), QZero, Cos(a)>> >>

\* rot.as_rotvec().  At an angle of pi both pi*n and -pi*n encode the
\* rotation; scipy returns the one its quaternion product arrives at, which
\* is left open here (sgn).  Half-turns about a coordinate axis only.
as_rotvec(rot, sgn) ==
    LET angle == ArcCos(ClipUnit(QDiv(QSub(Trace(rot), QOne), QTwo)))
        raw == << QSub(rot[3][2], rot[2][3]),
                  QSub(rot[1][3], rot[3][1]),
                  QSub(rot[2][1], rot[1][2]) >>
    IN  IF angle = QZero THEN ZeroVec
        ELSE IF angle = QInt(HalfTurn)
        THEN CASE \E i \in Idx3 : rot[i][i] = QOne ->
                    [i \in Idx3 |-> IF rot[i][i] = QOne THEN QInt(sgn * HalfTurn) ELSE QZero]
        ELSE VScale(angle, VDivS(raw, QMul(QTwo, Sin(angle))))

\* lines 55-63: new_rot = y_rot * current_rot for every frame
RotateOrient(g, rotate_y, sgn) ==
    [i \in 1..Len(g) |->
        as_rotvec(MatMul(from_euler_y(rotate_y), from_rotvec(g[i])), sgn)]

\* lines 47-50: x_new and z_new from the old x and z, y kept
RotateTranslY(tr, rotate_y) ==
    LET cos_angle == Cos(Deg2Rad(rotate_y))
        sin_angle == Sin(Deg2Rad(rotate_y))
    IN  [t \in 1..Len(tr) |->
            << QAdd(QMul(tr[t][1], cos_angle), QMul(tr[t][3], sin_angle)),
               tr[t][2],
               QAdd(QMul(QNeg(tr[t][1]), sin_angle), QMul(tr[t][3], cos_angle)) >>]

\* transl[:, c].mean()
ColMean(A, c) == QDiv(ColSum(A, c, Len(A)), QInt(Len(A)))

\* transl[:, c] += d
AddToCol(A, c, d) ==
    [t \in 1..Len(A) |-> [k \in Idx3 |-> IF k = c THEN QAdd(A[t][k], d) ELSE A[t][k]]]

\* poses that keep the rotated global_orient on whole units of pi/6:
\* any rotation about Y, and quarter turns about X and Z
AdjPoseVals ==
    { Unit(2, k) : k \in (-MaxK)..MaxK }
        \cup { Unit(1, QuarterTurn), Unit(3, QuarterTurn), Unit(3, -QuarterTurn) }

AdjRotateVals == { 0, 90, -90, 180, 30 }

AdjRuns ==
    { [T |-> 1, pt |-> 1, pv |-> v, tr |-> Ramp(1), rotate_y |-> a,
       scale_factor |-> 1, center_y |-> 0] :
      v \in AdjPoseVals, a \in AdjRotateVals }
        \cup
    { [T |-> Len(tr), pt |-> t, pv |-> <<0, 0, 0>>, tr |-> tr, rotate_y |-> a,
       scale_factor |-> k, center_y |-> c] :
      tr \in TranslSeqs, t \in {1}, a \in AdjRotateVals, k \in {1, 2}, c \in {0, 1} }
        \cup
    { [T |-> MaxT, pt |-> MaxT, pv |-> v, tr |-> Ramp(MaxT), rotate_y |-> a,
       scale_factor |-> 2, center_y |-> 1] :
      v \in { Unit(2, 2), Unit(1, QuarterTurn) }, a \in {90, -90} }

AdjInput(s) ==
    [global_orient |-> [t \in 1..s.T |-> IF t = s.pt THEN QVec(s.pv) ELSE ZeroVec],
     body_pose |-> [t \in 1..s.T |-> [k \in 1..BodyWidth |-> QZero]],
     transl |-> [t \in 1..s.T |-> QVec(s.tr[t])],
     betas |-> [i \in 1..NumBetas |-> QZero]]

InitAdjust ==
    /\ \E s \in AdjRuns :
          /\ (s.pv[1] # 0 \/ s.pv[3] # 0) => s.rotate_y \in {0, 90, -90}
          /\ args = [center_y |-> s.center_y, scale_factor |-> s.scale_factor,
                     rotate_y |-> s.rotate_y]
          /\ input = AdjInput(s)
    /\ pc = "adj_load"
    /\ global_orient = Unset /\ body_pose = Unset /\ transl = Unset /\ betas = Unset
    /\ poses = Unset /\ rotmats = Unset /\ R_fix = Unset /\ poses_aa = Unset
    /\ transl_new = Unset /\ out = Unset
    /\ PipeIdle

\* lines 22-27: np.load, two copies and two references
AdjLoad ==
    /\ pc = "adj_load"
    /\ global_orient' = input.global_orient
    /\ body_pose' = input.body_pose
    /\ transl' = input.transl
    /\ betas' = input.betas
    /\ pc' = "adj_rotate"
    /\ UNCHANGED <<args, input, poses, rotmats, R_fix, poses_aa, transl_new, out>>
    /\ UNCHANGED pipeVars

\* lines 35-63: if rotate_y != 0.0, rotate the copies in place
AdjRotate ==
    /\ pc = "adj_rotate"
    /\ IF args.rotate_y # 0
       THEN /\ transl' = RotateTranslY(transl, args.rotate_y)
            /\ \E sgn \in {-1, 1} :
                  global_orient' = RotateOrient(global_orient, args.rotate_y, sgn)
       ELSE UNCHANGED <<transl, global_orient>>
    /\ pc' = "adj_scale"
    /\ UNCHANGED <<args, input, body_pose, betas, poses, rotmats, R_fix, poses_aa,
                   transl_new, out>>
    /\ UNCHANGED pipeVars

\* line 67
AdjScale ==
    /\ pc = "adj_scale"
    /\ transl' = [t \in 1..Len(transl) |-> VScale(QInt(args.scale_factor), transl[t])]
    /\ pc' = "adj_center_y"
    /\ UNCHANGED <<args, input, global_orient, body_pose, betas, poses, rotmats,
                   R_fix, poses_aa, transl_new, out>>
    /\ UNCHANGED pipeVars

\* mutant: the translation scaled after its Y column is centred
AdjCenterYThenScale ==
    /\ pc = "adj_center_y"
    /\ transl' = LET c == AddToCol(transl, 2, QSub(QInt(args.center_y), ColMean(transl, 2)))
                 IN  [t \in 1..Len(c) |-> VScale(QInt(args.scale_factor), c[t])]
    /\ pc' = "adj_center_xz"
    /\ UNCHANGED <<args, input, global_orient, body_pose, betas, poses, rotmats,
                   R_fix, poses_aa, transl_new, out>>
    /\ UNCHANGED pipeVars

\* lines 70-72
AdjCenterY ==
    /\ pc = "adj_center_y"
    /\ transl' = AddToCol(transl, 2, QSub(QInt(args.center_y), ColMean(transl, 2)))
    /\ pc' = "adj_center_xz"
    /\ UNCHANGED <<args, input, global_orient, body_pose, betas, poses, rotmats,
                   R_fix, poses_aa, transl_new, out>>
    /\ UNCHANGED pipeVars

\* lines 75-76
AdjCenterXZ ==
    /\ pc = "adj_center_xz"
    /\ transl' = LET x == AddToCol(transl, 1, QNeg(ColMean(transl, 1)))
                 IN  AddToCol(x, 3, QNeg(ColMean(x, 3)))
    /\ pc' = "adj_save"
    /\ UNCHANGED <<args, input, global_orient, body_pose, betas, poses, rotmats,
                   R_fix, poses_aa, transl_new, out>>
    /\ UNCHANGED pipeVars

\* lines 84-92
AdjSave ==
    /\ pc = "adj_save"
    /\ out' = [global_orient |-> global_orient, body_pose |-> body_pose,
               transl |-> transl, betas |-> betas]
    /\ pc' = "adj_done"
    /\ UNCHANGED <<args, input, global_orient, body_pose, transl, betas, poses,
                   rotmats, R_fix, poses_aa, transl_new>>
    /\ UNCHANGED pipeVars

NextAdjust ==
    \/ AdjLoad
    \/ AdjRotate
    \/ AdjScale
    \/ AdjCenterY
    \/ AdjCenterXZ
    \/ AdjSave

SpecAdjust == InitAdjust /\ [][NextAdjust]_vars

(***************************************************************************)
(* flip_motion_direction() of flip_motion_direction.py, called on a file    *)
(* and then on the file it has written.                                     *)
(***************************************************************************)
\* mutant: X and Z exchanged with one sign changed, a quarter turn
FlipZQuarterTurn(tr) ==
    [t \in 1..Len(tr) |-> <<tr[t][3], tr[t][2], QNeg(tr[t][1])>>]

\* line 35: transl[:, 2] = -transl[:, 2]
FlipZ(tr) ==
    [t \in 1..Len(tr) |-> <<tr[t][1], tr[t][2], QNeg(tr[t][3])>>]

\* lines 39-47: flipped_rot = rot_y_180 * current_rot for every frame
FlipOrient(g, sgn) ==
    [i \in 1..Len(g) |->
        as_rotvec(MatMul(from_euler_y(30 * HalfTurn), from_rotvec(g[i])), sgn)]

\* lines 21-68, as a function of the input file; sgn as in as_rotvec
flip_motion_direction(file, center_y, sgn) ==
    LET flipped == FlipZ(file.transl)
        y == AddToCol(flipped, 2, QSub(QInt(center_y), ColMean(flipped, 2)))
        x == AddToCol(y, 1, QNeg(ColMean(y, 1)))
        z == AddToCol(x, 3, QNeg(ColMean(x, 3)))
    IN  [global_orient |-> FlipOrient(file.global_orient, sgn),
         body_pose |-> file.body_pose,
         transl |-> z,
         betas |-> file.betas]

\* root poses that keep the flipped global_orient on whole units of pi/6:
\* any rotation about Y, and half-turns about X and Z
FlipPoseVals ==
    { Unit(2, k) : k \in (-MaxK)..MaxK }
        \cup { Unit(1, HalfTurn), Unit(3, HalfTurn), Unit(3, -HalfTurn) }

FlipRuns ==
    { [Tg |-> Len(tr), Tb |-> Len(tr), Wb |-> BodyWidth, kind |-> "int",
       nv |-> <<2, -1, 2>>, pt |-> Len(tr), pj |-> 0, pv |-> v, tr |-> tr,
       betas |-> b, center_y |-> c] :
      tr \in TranslSeqs, v \in FlipPoseVals, b \in BetasVals, c \in {0, 1} }

InitFlip ==
    /\ \E s \in FlipRuns : args = [center_y |-> s.center_y] /\ input = MkInput(s)
    /\ pc = "flip_first"
    /\ global_orient = Unset /\ body_pose = Unset /\ transl = Unset /\ betas = Unset
    /\ poses = Unset /\ rotmats = Unset /\ R_fix = Unset /\ poses_aa = Unset
    /\ transl_new = Unset /\ out = Unset
    /\ PipeIdle

\* the first call, on the input file
FlipFirst ==
    /\ pc = "flip_first"
    /\ \E sgn \in {-1, 1} : out' = flip_motion_direction(input, args.center_y, sgn)
    /\ global_orient' = out'.global_orient
    /\ body_pose' = out'.body_pose
    /\ transl' = out'.transl
    /\ betas' = out'.betas
    /\ pc' = "flip_second"
    /\ UNCHANGED <<args, input, poses, rotmats, R_fix, poses_aa, transl_new>>
    /\ UNCHANGED pipeVars

\* the second call, on the file the first call has written
FlipSecond ==
    /\ pc = "flip_second"
    /\ \E sgn \in {-1, 1} : out' = flip_motion_direction(out, args.center_y, sgn)
    /\ global_orient' = out'.global_orient
    /\ body_pose' = out'.body_pose
    /\ transl' = out'.transl
    /\ betas' = out'.betas
    /\ pc' = "flip_done"
    /\ UNCHANGED <<args, input, poses, rotmats, R_fix, poses_aa, transl_new>>
    /\ UNCHANGED pipeVars

NextFlip ==
    \/ FlipFirst
    \/ FlipSecond

SpecFlip == InitFlip /\ [][NextFlip]_vars

(***************************************************************************)
(* convert_mdm_results_to_hugs() of convert_mdm_results_to_hugs_npz.py,     *)
(* called from its main().  The input is results['motion'], an array of     *)
(* shape (num_samples, num_joints, 3, num_frames), kept with its shape:     *)
(* motion[s][j][c][f], indices from 1.                                      *)
(***************************************************************************)
\* the number of joints of an MDM motion
MdmJoints == NumJoints - 2

\* mutant: the last sample taken
TakeLastSample(motion) == motion[Len(motion)]

\* lines 43-47: motion_data[0] in both branches
TakeSample(motion) == motion[1]

\* line 51: np.transpose(motion_data, (2, 0, 1)), frames first
TransposeFramesFirst(motion_data, shape) ==
    [f \in 1..shape[4] |-> [j \in 1..shape[2] |-> [c \in 1..shape[3] |-> motion_data[j][c][f]]]]

\* line 72: motion_data_t[:, 0, :]
RootPos(motion_data_t) == [f \in 1..Len(motion_data_t) |-> motion_data_t[f][1]]

\* lines 85-88 and 98-103
ConvertOutput(root_pos, num_frames) ==
    [global_orient |-> [f \in 1..num_frames |-> [c \in Idx3 |-> QZero]],
     body_pose |-> [f \in 1..num_frames |-> [k \in 1..BodyWidth |-> QZero]],
     transl |-> root_pos,
     betas |-> [i \in 1..NumBetas |-> QZero]]

\* a motion whose entries tell samples, joints, coordinates and frames apart
MkMotion(S, J, F, k) ==
    [s \in 1..S |-> [j \in 1..J |-> [c \in Idx3 |-> [f \in 1..F |->
        QInt(k * (s - 1) + (k + 1) * (j - 1) + 2 * c - 3 * f)]]]]

ConvRuns ==
    { [S |-> S, J |-> J, F |-> F, k |-> k] :
      S \in 1..(MaxT + 1), J \in {0, 1, 2, MdmJoints}, F \in 0..MaxT, k \in 1..3 }

InitConvert ==
    /\ \E r \in ConvRuns :
          input = [shape |-> <<r.S, r.J, 3, r.F>>, motion |-> MkMotion(r.S, r.J, r.F, r.k)]
    /\ args = Unset
    /\ pc = "convert"
    /\ global_orient = Unset /\ body_pose = Unset /\ transl = Unset /\ betas = Unset
    /\ poses = Unset /\ rotmats = Unset /\ R_fix = Unset /\ poses_aa = Unset
    /\ transl_new = Unset /\ out = Unset
    /\ PipeIdle

\* lines 133-142 around lines 36-109: the conversion, or the IndexError of
\* line 72 on a motion without joints, caught by main() which exits with 1
Convert ==
    /\ pc = "convert"
    /\ IF input.shape[2] >= 1
       THEN LET motion_data_t ==
                    TransposeFramesFirst(TakeSample(input.motion), input.shape)
                output_data == ConvertOutput(RootPos(motion_data_t), input.shape[4])
            IN  /\ global_orient' = output_data.global_orient
                /\ body_pose' = output_data.body_pose
                /\ transl' = output_data.transl
                /\ betas' = output_data.betas
                /\ out' = output_data
                /\ pc' = "convert_done"
       ELSE /\ pc' = "convert_failed"
            /\ UNCHANGED <<global_orient, body_pose, transl, betas, out>>
    /\ UNCHANGED <<args, input, poses, rotmats, R_fix, poses_aa, transl_new>>
    /\ UNCHANGED pipeVars

NextConvert == Convert

SpecConvert == InitConvert /\ [][NextConvert]_vars

\* both tools, each on its own runs
InitTools == InitFrames \/ InitAdjust

NextTools == Next \/ NextAdjust

SpecTools == InitTools /\ [][NextTools]_vars

(***************************************************************************)
(* main() of run_text2hugs.py.  The four external commands are opaque: each *)
(* takes time, exits with some code, and may or may not have written its    *)
(* output.  Other programs write into the MDM save directory and the HUGS   *)
(* output directory while the script runs (OtherRun).  Files carry their    *)
(* modification time and, for the properties only, who wrote them (by).     *)
(***************************************************************************)
MaxOther == 1   \* writes by other programs during one run of the script

ExitCodes == {0, 1}

RepoPaths == {"mdm_repo", "hugs_repo", "mdm_py", "hugs_py"}

None == <<"None">>

\* final_dir / "result.mp4"
ResultMp4 == <<"final", "result.mp4">>

\* the stages of executed_commands, in the order of main()
Stages == <<"mdm", "extract_smpl", "rotate", "hugs">>

\* mutant: the command started whether or not this is a dry run
run_command_ignoring_dry_run(stage, dry_run, code, fs_after) ==
    /\ started' = Append(started, [stage |-> stage, code |-> code, at |-> clock])
    /\ clock' = clock + 1
    /\ fs' = fs_after

\* lines 68-110, the effect: nothing in a dry run, else one subprocess that
\* exits with code and leaves the files as fs_after
run_command(stage, dry_run, code, fs_after) ==
    IF dry_run
    THEN UNCHANGED <<started, clock, fs>>
    ELSE /\ started' = Append(started, [stage |-> stage, code |-> code, at |-> clock])
         /\ clock' = clock + 1
         /\ fs' = fs_after

\* lines 85-87, 103-110, the value returned: True in a dry run and after
\* exit code 0, False after CalledProcessError
Returned(dry_run, code) == dry_run \/ code = 0

\* sys.exit(1), and an uncaught exception
ExitWith(status) ==
    /\ exit_status' = <<status>>
    /\ pc' = "t2h_exit"

\* the files with the greatest modification time among files
Newest(files) == { f \in files : \A g \in files : g.mtime <= f.mtime }

\* mutant: every .mp4 considered, whatever its modification time
find_newest_mp4_any_time(mp4_files, after_time) == Newest(mp4_files)

\* lines 121-133: the .mp4 files that max() may return, {} for None
find_newest_mp4(mp4_files, after_time) ==
    Newest({ f \in mp4_files : f.mtime > after_time })

\* lines 113-118: the results.npy files that matches[0] may be, {} for None
find_file(files) ==
    { [where |-> "samples", mtime |-> d.mtime, by |-> d.by] : d \in { d \in files.samples : d.results } }
        \cup { [where |-> "save", mtime |-> f.mtime, by |-> f.by] : f \in files.stray }

\* what the MDM save directory and the HUGS output directory hold at the start
OldSamples ==
    { {}, {[mtime |-> 0, results |-> TRUE, by |-> "old"]},
          {[mtime |-> 0, results |-> FALSE, by |-> "old"]} }

OldStray == { {}, {[mtime |-> 0, by |-> "old"]} }

OldMp4s == { {}, {[mtime |-> 0, by |-> "old"]} }

\* the repositories and interpreters that exist: all, all but one, none
PathSets == {RepoPaths, {}} \cup { RepoPaths \ {p} : p \in RepoPaths }

InitText2Hugs ==
    /\ \E d \in BOOLEAN : args = [dry_run |-> d]
    /\ \E P \in PathSets, S \in OldSamples, Y \in OldStray, V \in OldMp4s :
          fs = [paths |-> P, samples |-> S, stray |-> Y, target_npz |-> FALSE,
                mp4s |-> V, final |-> Unset, record |-> Unset, others |-> 0]
    /\ clock = 1
    /\ started = <<>> /\ executed_commands = <<>>
    /\ results_npy = Unset /\ before_hugs = Unset /\ final_mp4 = Unset
    /\ exit_status = <<>>
    /\ pc = "t2h_validate"
    /\ input = Unset
    /\ global_orient = Unset /\ body_pose = Unset /\ transl = Unset /\ betas = Unset
    /\ poses = Unset /\ rotmats = Unset /\ R_fix = Unset /\ poses_aa = Unset
    /\ transl_new = Unset /\ out = Unset

motionVars == <<input, global_orient, body_pose, transl, betas, poses, rotmats,
                R_fix, poses_aa, transl_new, out>>

\* lines 277-321: the path checks, skipped in a dry run
T2hValidate ==
    /\ pc = "t2h_validate"
    /\ IF ~args.dry_run /\ fs.paths # RepoPaths
       THEN ExitWith(1)
       ELSE pc' = "t2h_mdm" /\ UNCHANGED exit_status
    /\ UNCHANGED <<args, fs, clock, started, executed_commands, results_npy,
                   before_hugs, final_mp4>>
    /\ UNCHANGED motionVars

\* lines 326-351: stage 1, the MDM command; it may write a samples directory
T2hMdm ==
    /\ pc = "t2h_mdm"
    /\ \E code \in ExitCodes, wrote \in BOOLEAN :
          /\ run_command("mdm", args.dry_run, code,
                IF wrote
                THEN [fs EXCEPT !.samples =
                          @ \cup {[mtime |-> clock + 1, results |-> TRUE, by |-> "this"]}]
                ELSE fs)
          /\ IF Returned(args.dry_run, code)
             THEN /\ executed_commands' = Append(executed_commands, "mdm")
                  /\ pc' = "t2h_locate"
                  /\ UNCHANGED exit_status
             ELSE ExitWith(1) /\ UNCHANGED executed_commands
    /\ UNCHANGED <<args, results_npy, before_hugs, final_mp4>>
    /\ UNCHANGED motionVars

\* lines 361-389: the newest samples directory, its results.npy if it has
\* one, else the first results.npy found anywhere under save
T2hLocate ==
    /\ pc = "t2h_locate"
    /\ IF args.dry_run
       THEN pc' = "t2h_rotate" /\ UNCHANGED <<results_npy, exit_status>>
       ELSE \/ \E latest_sample_dir \in Newest(fs.samples) :
                 /\ latest_sample_dir.results
                 /\ results_npy' = [where |-> "samples", mtime |-> latest_sample_dir.mtime,
                                    by |-> latest_sample_dir.by]
                 /\ pc' = "t2h_extract" /\ UNCHANGED exit_status
            \/ /\ \A d \in Newest(fs.samples) : ~d.results
               /\ \E f \in find_file(fs) :
                     /\ results_npy' = f
                     /\ pc' = "t2h_extract" /\ UNCHANGED exit_status
            \/ /\ \A d \in Newest(fs.samples) : ~d.results
               /\ find_file(fs) = {}
               /\ ExitWith(1) /\ UNCHANGED results_npy
    /\ UNCHANGED <<args, fs, clock, started, executed_commands, before_hugs, final_mp4>>
    /\ UNCHANGED motionVars

\* lines 393-416: stage 2, extract_smpl_params.py; it may write the npz
T2hExtract ==
    /\ pc = "t2h_extract"
    /\ \E code \in ExitCodes, wrote \in BOOLEAN :
          /\ run_command("extract_smpl", args.dry_run, code,
                [fs EXCEPT !.target_npz = @ \/ wrote])
          /\ IF Returned(args.dry_run, code)
             THEN /\ executed_commands' = Append(executed_commands, "extract_smpl")
                  /\ pc' = "t2h_check_npz"
                  /\ UNCHANGED exit_status
             ELSE ExitWith(1) /\ UNCHANGED executed_commands
    /\ UNCHANGED <<args, results_npy, before_hugs, final_mp4>>
    /\ UNCHANGED motionVars

\* lines 418-425: FileNotFoundError if the npz was not produced
T2hCheckNpz ==
    /\ pc = "t2h_check_npz"
    /\ IF fs.target_npz
       THEN pc' = "t2h_rotate" /\ UNCHANGED exit_status
       ELSE ExitWith(1)
    /\ UNCHANGED <<args, fs, clock, started, executed_commands, results_npy,
                   before_hugs, final_mp4>>
    /\ UNCHANGED motionVars

\* mutant: the script goes on after a failed rotation
T2hRotateUnchecked ==
    /\ pc = "t2h_rotate"
    /\ \E code \in ExitCodes :
          /\ run_command("rotate", args.dry_run, code, fs)
          /\ executed_commands' = Append(executed_commands, "rotate")
          /\ pc' = "t2h_hugs"
          /\ UNCHANGED exit_status
    /\ UNCHANGED <<args, results_npy, before_hugs, final_mp4>>
    /\ UNCHANGED motionVars

\* lines 434-468: stage 3, the rotation script
T2hRotate ==
    /\ pc = "t2h_rotate"
    /\ \E code \in ExitCodes :
          /\ run_command("rotate", args.dry_run, code, fs)
          /\ IF Returned(args.dry_run, code)
             THEN /\ executed_commands' = Append(executed_commands, "rotate")
                  /\ pc' = "t2h_hugs"
                  /\ UNCHANGED exit_status
             ELSE ExitWith(1) /\ UNCHANGED executed_commands
    /\ UNCHANGED <<args, results_npy, before_hugs, final_mp4>>
    /\ UNCHANGED motionVars

\* lines 473-508: stage 4, the time taken and the render; it may write an mp4
T2hHugs ==
    /\ pc = "t2h_hugs"
    /\ before_hugs' = clock
    /\ \E code \in ExitCodes, wrote \in BOOLEAN :
          /\ run_command("hugs", args.dry_run, code,
                IF wrote
                THEN [fs EXCEPT !.mp4s = @ \cup {[mtime |-> clock + 1, by |-> "this"]}]
                ELSE fs)
          /\ IF Returned(args.dry_run, code)
             THEN /\ executed_commands' = Append(executed_commands, "hugs")
                  /\ pc' = "t2h_video"
                  /\ UNCHANGED exit_status
             ELSE ExitWith(1) /\ UNCHANGED executed_commands
    /\ UNCHANGED <<args, results_npy, final_mp4>>
    /\ UNCHANGED motionVars

\* lines 513-530: stage 5, the newest new mp4 copied to final/result.mp4
T2hVideo ==
    /\ pc = "t2h_video"
    /\ IF args.dry_run
       THEN final_mp4' = ResultMp4 /\ UNCHANGED fs
       ELSE \/ \E newest_mp4 \in find_newest_mp4(fs.mp4s, before_hugs) :
                 /\ fs' = [fs EXCEPT !.final = newest_mp4]
                 /\ final_mp4' = ResultMp4
            \/ /\ find_newest_mp4(fs.mp4s, before_hugs) = {}
               /\ final_mp4' = None
               /\ UNCHANGED fs
    /\ pc' = "t2h_record"
    /\ UNCHANGED <<args, clock, started, executed_commands, results_npy,
                   before_hugs, exit_status>>
    /\ UNCHANGED motionVars

\* lines 532-590: run_record.json written, the script ends
T2hRecord ==
    /\ pc = "t2h_record"
    /\ fs' = [fs EXCEPT !.record = [executed_commands |-> executed_commands,
                                    final_mp4 |-> final_mp4]]
    /\ exit_status' = <<0>>
    /\ pc' = "t2h_exit"
    /\ UNCHANGED <<args, clock, started, executed_commands, results_npy,
                   before_hugs, final_mp4>>
    /\ UNCHANGED motionVars

\* another program writes a samples directory with a results.npy, or an mp4
OtherRun ==
    /\ pc \notin {"t2h_validate", "t2h_exit"}
    /\ fs.others < MaxOther
    /\ clock' = clock + 1
    /\ \/ fs' = [fs EXCEPT !.samples = @ \cup {[mtime |-> clock + 1, results |-> TRUE, by |-> "other"]},
                          !.others = @ + 1]
       \/ fs' = [fs EXCEPT !.mp4s = @ \cup {[mtime |-> clock + 1, by |-> "other"]},
                          !.others = @ + 1]
    /\ UNCHANGED <<pc, args, started, executed_commands, results_npy, before_hugs,
                   final_mp4, exit_status>>
    /\ UNCHANGED motionVars

NextText2Hugs ==
    \/ T2hValidate
    \/ T2hMdm
    \/ T2hLocate
    \/ T2hExtract
    \/ T2hCheckNpz
    \/ T2hRotate
    \/ T2hHugs
    \/ T2hVideo
    \/ T2hRecord
    \/ OtherRun

SpecText2Hugs == InitText2Hugs /\ [][NextText2Hugs]_vars

(***************************************************************************)
(* main() of run_mdm2hugs.py: the rotation script, the render, the record.  *)
(***************************************************************************)
M2hExitCodes == {0, 1, 2}

Scenes == {"bike", "citron", "jogging"}

\* lines 55-68: one subprocess; True if and only if its return code is 0
M2hRunCommand(stage, cmd, code) ==
    /\ started' = Append(started, [stage |-> stage, cmd |-> cmd, code |-> code, at |-> clock])
    /\ clock' = clock + 1

M2hExit(status) ==
    /\ exit_status' = <<status>>
    /\ pc' = "m2h_exit"

\* lines 73-86: the flags of the rotation command
RotateCmd(a) ==
    <<"--rx", "90", "--rz", "180">>
        \o (IF a.center THEN <<"--center">> ELSE <<>>)
        \o (IF a.tz # 0 THEN <<"--tz">> ELSE <<>>)

InitMdm2Hugs ==
    /\ \E c \in BOOLEAN, tz \in {0, 1}, scene \in Scenes :
          args = [center |-> c, tz |-> tz, scene |-> scene]
    /\ \E e \in BOOLEAN : fs = [input_npz |-> e, rotated_npz |-> FALSE, record |-> Unset]
    /\ clock = 1
    /\ started = <<>> /\ executed_commands = <<>>
    /\ results_npy = Unset /\ before_hugs = Unset /\ final_mp4 = Unset
    /\ exit_status = <<>>
    /\ pc = "m2h_validate"
    /\ input = Unset
    /\ global_orient = Unset /\ body_pose = Unset /\ transl = Unset /\ betas = Unset
    /\ poses = Unset /\ rotmats = Unset /\ R_fix = Unset /\ poses_aa = Unset
    /\ transl_new = Unset /\ out = Unset

\* lines 172-196
M2hValidate ==
    /\ pc = "m2h_validate"
    /\ IF fs.input_npz
       THEN pc' = "m2h_rotate" /\ UNCHANGED exit_status
       ELSE M2hExit(1)
    /\ UNCHANGED <<args, fs, clock, started, executed_commands, results_npy,
                   before_hugs, final_mp4>>
    /\ UNCHANGED motionVars

\* mutant: the render follows whatever the rotation returned
M2hRotateUnchecked ==
    /\ pc = "m2h_rotate"
    /\ \E code \in M2hExitCodes, wrote \in BOOLEAN :
          /\ M2hRunCommand("rotate", RotateCmd(args), code)
          /\ fs' = [fs EXCEPT !.rotated_npz = wrote]
          /\ pc' = "m2h_render" /\ UNCHANGED exit_status
    /\ UNCHANGED <<args, executed_commands, results_npy, before_hugs, final_mp4>>
    /\ UNCHANGED motionVars

\* lines 198-201 with rotate_motion, lines 71-88
M2hRotate ==
    /\ pc = "m2h_rotate"
    /\ \E code \in M2hExitCodes, wrote \in BOOLEAN :
          /\ M2hRunCommand("rotate", RotateCmd(args), code)
          /\ fs' = [fs EXCEPT !.rotated_npz = wrote]
          /\ IF code = 0
             THEN pc' = "m2h_render" /\ UNCHANGED exit_status
             ELSE M2hExit(1)
    /\ UNCHANGED <<args, executed_commands, results_npy, before_hugs, final_mp4>>
    /\ UNCHANGED motionVars

\* lines 203-206 with render_hugs, lines 91-111; argparse admits only the
\* scenes of SCENE_CONFIGS
M2hRender ==
    /\ pc = "m2h_render"
    /\ \E code \in M2hExitCodes :
          /\ M2hRunCommand("hugs", <<args.scene>>, code)
          /\ IF code = 0
             THEN pc' = "m2h_record" /\ UNCHANGED exit_status
             ELSE M2hExit(1)
    /\ UNCHANGED <<args, fs, executed_commands, results_npy, before_hugs, final_mp4>>
    /\ UNCHANGED motionVars

\* lines 208-240 with save_record, lines 114-118
M2hRecord ==
    /\ pc = "m2h_record"
    /\ fs' = [fs EXCEPT !.record = [scene |-> args.scene, center |-> args.center,
                                    tz_offset |-> args.tz]]
    /\ M2hExit(0)
    /\ UNCHANGED <<args, clock, started, executed_commands, results_npy,
                   before_hugs, final_mp4>>
    /\ UNCHANGED motionVars

NextMdm2Hugs ==
    \/ M2hValidate
    \/ M2hRotate
    \/ M2hRender
    \/ M2hRecord

SpecMdm2Hugs == InitMdm2Hugs /\ [][NextMdm2Hugs]_vars

(***************************************************************************)
(* main() as a function of the command line and the input file, for input   *)
(* files that it accepts                                                    *)
(***************************************************************************)
Transform(a, file) ==
    LET R == euler_xyz_to_rotmat(Deg2Rad(a.rx), Deg2Rad(a.ry), Deg2Rad(a.rz))
        P == Reshape(Concatenate(file.global_orient, file.body_pose))
        aa == FlattenRows(EncodeAll(ConjugateAll(R, DecodeAll(P))))
        rotated == RotateTransl(R, file.transl)
        centred == IF a.center THEN CenterTransl(rotated) ELSE rotated
    IN  [global_orient |-> HeadCols(aa),
         body_pose |-> TailCols(aa),
         transl |-> OffsetTransl(centred, QVec(<<a.tx, a.ty, a.tz>>)),
         betas |-> file.betas]

(***************************************************************************)
(* rotmat_to_axis_angle on its own: a batch of one frame whose matrices are *)
(* the identity but for one, drawn from rotations and from matrices that    *)
(* are no rotations (multiples of the identity, reflections, scaled         *)
(* rotations, NaN).                                                         *)
(***************************************************************************)
DiagMat(a, b, c) ==
    << <<QInt(a), QZero, QZero>>, <<QZero, QInt(b), QZero>>, <<QZero, QZero, QInt(c)>> >>

NaNMat == [i \in Idx3 |-> [j \in Idx3 |-> NaN]]

CodecMats ==
    { axis_angle_to_rotmat(QVec(v)) : v \in PoseVals }
        \cup { MatScale(QTwo, axis_angle_to_rotmat(QVec(v))) : v \in PoseVals }
        \cup { DiagMat(a, b, c) : a, b, c \in {-1, 1} }
        \cup { DiagMat(k, k, k) : k \in (-2)..3 }
        \cup { NaNMat }

InitCodec ==
    /\ \E M \in CodecMats : \E pj \in {1, NumJoints} :
          rotmats = << [j \in 1..NumJoints |-> IF j = pj THEN M ELSE Eye3] >>
    /\ pc = "encode"
    /\ args = Unset /\ input = Unset
    /\ global_orient = Unset /\ body_pose = Unset /\ transl = Unset /\ betas = Unset
    /\ poses = Unset /\ R_fix = Unset /\ poses_aa = Unset
    /\ transl_new = Unset /\ out = Unset
    /\ PipeIdle

NextCodec == Encode

SpecCodec == InitCodec /\ [][NextCodec]_vars

(***************************************************************************)
(* Vocabulary of the properties                                            *)
(***************************************************************************)
Joints == 0..(NumJoints - 1)

\* the pose of joint j (0 = global_orient, 1..23 = body_pose) at frame t of a file
PoseAt(file, t, j) ==
    IF j = 0 THEN file.global_orient[t]
    ELSE SubSeq(file.body_pose[t], 3 * (j - 1) + 1, 3 * j)

InPose(t, j) == PoseAt(input, t, j)
OutPose(t, j) == PoseAt(out, t, j)

Frames == 1..Len(input.global_orient)

\* the rotation the command line asks for
ArgsRot == euler_xyz_to_rotmat(Deg2Rad(args.rx), Deg2Rad(args.ry), Deg2Rad(args.rz))

NoRotation == args.rx = 0 /\ args.ry = 0 /\ args.rz = 0
NoOffset == args.tx = 0 /\ args.ty = 0 /\ args.tz = 0

Pi == QInt(HalfTurn)

\* eps < |v| < pi - eps
InOpenHalfTurn(v) == ~QLtEps(Norm(v)) /\ QLess(Norm(v), Pi)

(***************************************************************************)
(* C1.  A transl array whose length differs from that of global_orient      *)
(* makes the run fail with a shape mismatch before any numeric work: no     *)
(* rotation matrix, no rotated translation and no output is ever produced.  *)
(***************************************************************************)
C1_MismatchFailsFast ==
    Len(input.transl) # Len(input.global_orient) =>
        /\ rotmats = Unset
        /\ R_fix = Unset
        /\ transl_new = Unset
        /\ out = Unset

(***************************************************************************)
(* C2 (as stated).  With rx = ry = rz = 0, centering off and zero offset    *)
(* the output global_orient, body_pose and transl equal the input, for      *)
(* every pose value, rotation angles of pi and more included.               *)
(***************************************************************************)
IdentityArgs == NoRotation /\ ~args.center /\ NoOffset

C3_PerSlotConjugation ==
    pc = "done" =>
        /\ Len(out.global_orient) = Len(input.global_orient)
        /\ Len(out.body_pose) = Len(input.body_pose)
        /\ \A t \in Frames : \A j \in Joints :
              OutPose(t, j) =
                  rotmat_to_axis_angle(
                      Conjugate(ArgsRot, axis_angle_to_rotmat(InPose(t, j))))

C3_Witness ==
    /\ pc = "done"
    /\ Len(input.global_orient) = 2
    /\ ~NoRotation
    /\ InPose(2, NumJoints - 1) # ZeroVec
    /\ OutPose(2, NumJoints - 1) # ZeroVec
    /\ OutPose(2, NumJoints - 1) # InPose(2, NumJoints - 1)

(***************************************************************************)
(* C4.  With centering off and zero offset every output translation is      *)
(* R_fix applied once to the input translation of the same frame:           *)
(* transl_new[t][i] = sum over k of R_fix[i][k] * transl[t][k].             *)
(***************************************************************************)
C4_TranslRotatedDirectly ==
    (pc = "done" /\ ~args.center /\ NoOffset) =>
        /\ Len(out.transl) = Len(input.transl)
        /\ \A t \in 1..Len(input.transl) : \A i \in Idx3 :
              out.transl[t][i] =
                  QAdd(QAdd(QMul(ArgsRot[i][1], input.transl[t][1]),
                            QMul(ArgsRot[i][2], input.transl[t][2])),
                       QMul(ArgsRot[i][3], input.transl[t][3]))

C4_Witness ==
    /\ pc = "done" /\ ~args.center /\ NoOffset
    /\ ArgsRot # Transpose(ArgsRot)
    /\ Len(input.transl) = 2
    /\ out.transl[2] # input.transl[2]
    /\ out.transl[2] # MatVec(Transpose(ArgsRot), input.transl[2])

(***************************************************************************)
(* C5.  euler_xyz_to_rotmat(rx, ry, rz) = Rz(rz) * Ry(ry) * Rx(rx): applied *)
(* to a vector, the rotation about X acts first, then the one about Y, and  *)
(* the one about Z last.  The elemental rotations are written out on the    *)
(* coordinates of the vector.                                               *)
(***************************************************************************)
TurnX(a, v) ==
    << v[1],
       QSub(QMul(Cos(a), v[2]), QMul(Sin(a), v[3])),
       QAdd(QMul(Sin(a), v[2]), QMul(Cos(a), v[3])) >>

TurnY(a, v) ==
    << QAdd(QMul(Cos(a), v[1]), QMul(Sin(a), v[3])),
       v[2],
       QSub(QMul(Cos(a), v[3]), QMul(Sin(a), v[1])) >>

TurnZ(a, v) ==
    << QSub(QMul(Cos(a), v[1]), QMul(Sin(a), v[2])),
       QAdd(QMul(Sin(a), v[1]), QMul(Cos(a), v[2])),
       v[3] >>

XThenYThenZ(v) ==
    TurnZ(Deg2Rad(args.rz), TurnY(Deg2Rad(args.ry), TurnX(Deg2Rad(args.rx), v)))

C5_EulerOrder ==
    R_fix # Unset =>
        \A i \in Idx3 : MatVec(R_fix, QVec(Unit(i, 1))) = XThenYThenZ(QVec(Unit(i, 1)))

C5_Witness ==
    /\ R_fix # Unset
    /\ args.rx # 0 /\ args.ry # 0 /\ args.rz # 0
    /\ R_fix # MatMul(MatMul(ElemRx(Deg2Rad(args.rx)), ElemRy(Deg2Rad(args.ry))),
                      ElemRz(Deg2Rad(args.rz)))

(***************************************************************************)
(* C6.  With centering enabled and zero offset the per-axis sum, hence the  *)
(* per-axis mean, of the output translations over all frames is zero.       *)
(***************************************************************************)
C6_CenteredMeanIsZero ==
    (pc = "done" /\ args.center /\ NoOffset) =>
        \A c \in Idx3 : ColSum(out.transl, c, Len(out.transl)) = QZero

C6_Witness ==
    /\ pc = "done" /\ args.center /\ NoOffset /\ ~NoRotation
    /\ Len(input.transl) = 2
    /\ input.transl[1] # input.transl[2]
    /\ out.transl[1] # ZeroVec
    /\ \A c \in Idx3 : ColSum(input.transl, c, 2) # QZero

(***************************************************************************)
(* C7.  Translations are rotated, then centred (if asked), then offset:     *)
(* with centering enabled the per-axis mean of the output translations is   *)
(* the offset (their sum is T times the offset), and the difference of any  *)
(* two output frames is R_fix applied to the difference of the same two     *)
(* input frames.                                                            *)
(***************************************************************************)
ArgsOffset == QVec(<<args.tx, args.ty, args.tz>>)

C7_RotateCenterOffset ==
    pc = "done" =>
        /\ args.center =>
              \A c \in Idx3 :
                  ColSum(out.transl, c, Len(out.transl))
                      = QMul(QInt(Len(out.transl)), ArgsOffset[c])
        /\ \A t1, t2 \in 1..Len(input.transl) :
              VSub(out.transl[t1], out.transl[t2])
                  = MatVec(ArgsRot, VSub(input.transl[t1], input.transl[t2]))

C7_Witness ==
    /\ pc = "done" /\ args.center /\ ~NoOffset /\ ~NoRotation
    /\ Len(input.transl) = 2
    /\ input.transl[1] # input.transl[2]
    /\ MeanRows(RotateTransl(ArgsRot, input.transl)) # ZeroVec
    /\ MeanRows(out.transl) = ArgsOffset

(***************************************************************************)
(* C8.  betas is never changed: from the load on the local betas equals the *)
(* input betas, and the saved betas equals the input betas, whatever the    *)
(* rotation, the centering flag and the offset.                             *)
(***************************************************************************)
C8_BetasPassThrough ==
    /\ pc # "load" => betas = input.betas
    /\ pc = "done" => out.betas = input.betas

C8_Witness ==
    /\ pc = "done" /\ args.center /\ ~NoOffset /\ ~NoRotation
    /\ \E i \in 1..Len(input.betas) : input.betas[i] # QZero
    /\ out.betas = input.betas

(***************************************************************************)
(* C9.  Conjugation keeps the angle of every rotation: the norm of each     *)
(* output pose equals the rotation angle (in [0, pi]) of the input pose at  *)
(* the same frame and joint, for every R_fix.                               *)
(***************************************************************************)
\* the angle in [0, pi] of the rotation that the axis-angle vector v encodes
RotationAngle(v) ==
    LET n == Norm(v)[1] % FullTurn
    IN  QInt(IF n <= HalfTurn THEN n ELSE FullTurn - n)

C11_BadWidthFailsFast ==
    (Width(input.body_pose) # BodyWidth \/ Len(input.betas) # NumBetas) =>
        /\ rotmats = Unset
        /\ R_fix = Unset
        /\ transl_new = Unset
        /\ out = Unset

(***************************************************************************)
(* C12.  A well-formed input of T frames (global_orient T x 3, body_pose    *)
(* T x 69, transl T x 3, betas 10) never fails, and its output has the same *)
(* T and the same shapes.                                                   *)
(***************************************************************************)
IsShape(A, rows, width) == Len(A) = rows /\ \A t \in 1..Len(A) : Len(A[t]) = width

WellFormed(file, T) ==
    /\ IsShape(file.global_orient, T, 3)
    /\ IsShape(file.body_pose, T, BodyWidth)
    /\ IsShape(file.transl, T, 3)
    /\ Len(file.betas) = NumBetas

C12_ShapesPreserved ==
    \A T \in 1..Len(input.global_orient) :
        WellFormed(input, T) =>
            /\ pc # "error"
            /\ pc = "done" => WellFormed(out, T)

C12_Witness ==
    /\ pc = "done"
    /\ WellFormed(input, 2)
    /\ WellFormed(out, 2)
    /\ out.body_pose # input.body_pose

(***************************************************************************)
(* C13.  The concrete scenario: one frame, global_orient = [0,0,0],         *)
(* body_pose all zeros, transl = [1,0,0], betas zeros, rx = 0, ry = 90      *)
(* degrees, rz = 0, centering off, offset zero.  The output transl is       *)
(* [0,0,-1], and global_orient and every body_pose joint are [0,0,0].       *)
(***************************************************************************)
Scenario ==
    /\ args = [rx |-> 0, ry |-> 90, rz |-> 0, center |-> FALSE,
               tx |-> 0, ty |-> 0, tz |-> 0]
    /\ input.global_orient = << ZeroVec >>
    /\ input.body_pose = << [k \in 1..BodyWidth |-> QZero] >>
    /\ input.transl = << QVec(<<1, 0, 0>>) >>
    /\ input.betas = [i \in 1..NumBetas |-> QZero]

C13_QuarterTurnAboutY ==
    (pc = "done" /\ Scenario) =>
        /\ out.transl = << QVec(<<0, 0, -1>>) >>
        /\ out.global_orient = << ZeroVec >>
        /\ \A j \in 1..(NumJoints - 1) : PoseAt(out, 1, j) = ZeroVec

C13_Witness ==
    /\ pc = "done" /\ Scenario
    /\ out.transl[1] = QVec(<<0, 0, -1>>)
    /\ R_fix[1][3] = QOne /\ R_fix[3][1] = QNeg(QOne)

(***************************************************************************)
(* C14.  The near-zero policy of axis_angle_to_rotmat is applied element by *)
(* element: in the decoded batch every pose of norm below eps, the zero     *)
(* vector included, has exactly the identity matrix, and every other finite *)
(* pose of the same batch has its Rodrigues rotation.  That rotation is     *)
(* stated by what determines it: it is orthogonal, fixes the axis v/|v|,    *)
(* has trace 1 + 2 cos|v| and antisymmetric part 2 sin|v| times the axis.   *)
(***************************************************************************)
FiniteVec(v) == \A i \in Idx3 : IsFinite(v[i])

Antisym(R) ==
    << QSub(R[3][2], R[2][3]), QSub(R[1][3], R[3][1]), QSub(R[2][1], R[1][2]) >>

IsRotationAbout(R, v) ==
    LET angle == Norm(v)
        axis == VDivS(v, angle)
    IN  /\ MatMul(R, Transpose(R)) = Eye3
        /\ MatVec(R, axis) = [i \in Idx3 |-> axis[i]]
        /\ Trace(R) = QAdd(QOne, QMul(QTwo, Cos(angle)))
        /\ Antisym(R) = [i \in Idx3 |-> QMul(QMul(QTwo, Sin(angle)), axis[i])]

C14_NearZeroPerElement ==
    pc = "rfix" =>
        \A n \in 1..Len(poses) : \A j \in 1..NumJoints :
            /\ QLtEps(Norm(poses[n][j])) => rotmats[n][j] = Eye3
            /\ (FiniteVec(poses[n][j]) /\ ~QLtEps(Norm(poses[n][j])))
                  => IsRotationAbout(rotmats[n][j], poses[n][j])

C14_Witness ==
    /\ pc = "rfix"
    /\ \E n \in 1..Len(poses) : \E j1, j2, j3 \in 1..NumJoints :
          /\ poses[n][j1] # ZeroVec /\ QLtEps(Norm(poses[n][j1]))
          /\ rotmats[n][j1] = Eye3
          /\ poses[n][j2] = ZeroVec /\ rotmats[n][j2] = Eye3
          /\ ~QLtEps(Norm(poses[n][j3]))
          /\ rotmats[n][j3] # Eye3
          /\ IsRotationAbout(rotmats[n][j3], poses[n][j3])

(***************************************************************************)
(* C15.  For every finite input pose the matrix that axis_angle_to_rotmat   *)
(* returns is a proper rotation, R^T * R = I and det(R) = +1, and so is the *)
(* conjugated matrix R_fix * M * R_fix^T that replaces it.  rotmats holds   *)
(* the decoded matrices at "conj" and the conjugated ones at "encode".      *)
(***************************************************************************)
Det(R) ==
    QAdd(QSub(QMul(R[1][1], QSub(QMul(R[2][2], R[3][3]), QMul(R[2][3], R[3][2]))),
              QMul(R[1][2], QSub(QMul(R[2][1], R[3][3]), QMul(R[2][3], R[3][1])))),
         QMul(R[1][3], QSub(QMul(R[2][1], R[3][2]), QMul(R[2][2], R[3][1]))))

IsProperRotation(R) == MatMul(Transpose(R), R) = Eye3 /\ Det(R) = QOne

C15_ProperRotations ==
    pc \in {"conj", "encode"} =>
        \A n \in 1..Len(poses) : \A j \in 1..NumJoints :
            FiniteVec(poses[n][j]) => IsProperRotation(rotmats[n][j])

C15_Witness ==
    /\ pc = "encode"
    /\ R_fix # Eye3
    /\ \E n \in 1..Len(poses) : \E j \in 1..NumJoints :
          /\ FiniteVec(poses[n][j])
          /\ rotmats[n][j] # axis_angle_to_rotmat(poses[n][j])
          /\ rotmats[n][j] # Transpose(rotmats[n][j])
          /\ IsProperRotation(rotmats[n][j])

(***************************************************************************)
(* C16.  rotmat_to_axis_angle returns a vector for every matrix, degenerate *)
(* ones included.  (trace - 1)/2 is clamped to [-1, 1]: a cosine of 1 or    *)
(* more gives angle 0 and a cosine of -1 or less gives angle pi.  Whenever  *)
(* the sine of that angle is below eps in size, at pi as well as at 0, the  *)
(* result is the zero vector; so a rotation by exactly 180 degrees, like    *)
(* the identity, decodes to the zero vector.                                *)
(***************************************************************************)
CosOf(M) == QDiv(QSub(Trace(M), QOne), QTwo)

EncodedPose(n, j) == SubSeq(poses_aa[n], 3 * (j - 1) + 1, 3 * j)

IsHalfTurn(M) == IsProperRotation(M) /\ M = Transpose(M) /\ M # Eye3

HasNonFinitePose == \E t \in Frames : \E j \in Joints : ~FiniteVec(InPose(t, j))

C17_NonFinitePropagates ==
    /\ (Len(input.body_pose) = Len(input.global_orient) /\ HasNonFinitePose)
          => pc # "error"
    /\ pc = "rfix" =>
          \A n \in 1..Len(poses) : \A j \in 1..NumJoints :
              ~FiniteVec(poses[n][j]) => rotmats[n][j] # Eye3
    /\ pc = "done" =>
          \A t \in Frames : \A j \in Joints :
              ~FiniteVec(InPose(t, j)) => ~FiniteVec(OutPose(t, j))

C17_Witness ==
    /\ pc = "done"
    /\ ~NoRotation
    /\ \E t \in Frames : \E j \in Joints :
          /\ \E i \in Idx3 : InPose(t, j)[i] = NegInf
          /\ \E i \in Idx3 : InPose(t, j)[i] = QZero
          /\ \A i \in Idx3 : OutPose(t, j)[i] = NaN

(***************************************************************************)
(* C18.  Frame independence, stated on two inputs: the input of the run and *)
(* a peer that agrees with it on frame t and holds other poses and another  *)
(* translation in every other frame.                                        *)
(***************************************************************************)
FillPose == QVec(<<0, 3, 0>>)
FillTransl == QVec(<<5, 7, -2>>)

\* the file with every frame but t replaced
PeerOf(file, t) ==
    [global_orient |->
        [u \in 1..Len(file.global_orient) |->
            IF u = t THEN file.global_orient[u] ELSE FillPose],
     body_pose |->
        [u \in 1..Len(file.body_pose) |->
            IF u = t THEN file.body_pose[u]
            ELSE [k \in 1..BodyWidth |-> FillPose[((k - 1) % 3) + 1]]],
     transl |->
        [u \in 1..Len(file.transl) |-> IF u = t THEN file.transl[u] ELSE FillTransl],
     betas |-> file.betas]

SamePosesAt(f1, f2, t) ==
    f1.global_orient[t] = f2.global_orient[t] /\ f1.body_pose[t] = f2.body_pose[t]

(***************************************************************************)
(* C18 (as stated).  For two inputs that agree on frame t the output poses  *)
(* and the output translation of frame t are equal, whatever the other      *)
(* frames contain and whatever the centering flag is.                       *)
(***************************************************************************)
C18_FrameIndependent ==
    (pc = "done" /\ WellFormed(input, Len(input.global_orient))) =>
        \A t \in Frames :
            LET peer == Transform(args, PeerOf(input, t))
            IN  /\ SamePosesAt(peer, out, t)
                /\ peer.transl[t] = out.transl[t]

(***************************************************************************)
(* C18 (amended).  For two inputs that agree on frame t the output poses of *)
(* frame t are equal whatever the other frames contain, and so is the       *)
(* output translation of frame t when centering is off; with centering on   *)
(* the translation of a frame depends on all frames through their mean.     *)
(***************************************************************************)
C18_FrameIndependentUncentred ==
    (pc = "done" /\ WellFormed(input, Len(input.global_orient))) =>
        \A t \in Frames :
            LET peer == Transform(args, PeerOf(input, t))
            IN  /\ SamePosesAt(peer, out, t)
                /\ ~args.center => peer.transl[t] = out.transl[t]

C18_Witness ==
    /\ pc = "done" /\ WellFormed(input, 2)
    /\ ~args.center /\ ~NoRotation
    /\ PeerOf(input, 2).transl[1] # input.transl[1]
    /\ ~SamePosesAt(PeerOf(input, 2), input, 1)
    /\ InPose(2, NumJoints - 1) # ZeroVec
    /\ OutPose(2, NumJoints - 1) # ZeroVec
    /\ SamePosesAt(Transform(args, PeerOf(input, 2)), out, 2)
    /\ Transform(args, PeerOf(input, 2)).transl[2] = out.transl[2]
    /\ ~SamePosesAt(Transform(args, PeerOf(input, 2)), out, 1)

\* the positions of main() after np.load, and of adjust_translation()
AfterLoad == { "concat", "decode", "rfix", "conj", "encode", "transl", "center",
               "offset", "save", "done", "failed" }

AdjAfterLoad == { "adj_rotate", "adj_scale", "adj_center_y", "adj_center_xz",
                  "adj_save", "adj_done" }

\* C19: neither tool changes what it was given.  No step changes the input
\* file or the command line; once main() has loaded its four arrays it never
\* assigns to them again, and its R_fix keeps its value once computed;
\* adjust_translation() edits only its two copies (global_orient, transl)
\* and leaves the body_pose and betas it read untouched.  The result is a
\* value built at the last step, while the input still has its old value.
C19_InputNeverMutated ==
    [][ /\ input' = input
        /\ args' = args
        /\ pc \in AfterLoad => UNCHANGED <<global_orient, body_pose, transl, betas>>
        /\ R_fix # Unset => R_fix' = R_fix
        /\ pc \in AdjAfterLoad => UNCHANGED <<body_pose, betas>>
        /\ out = Unset /\ out' # Unset =>
              /\ pc \in {"save", "adj_save"}
              /\ pc \in AfterLoad =>
                    /\ global_orient' = input.global_orient
                    /\ body_pose' = input.body_pose
                    /\ transl' = input.transl
                    /\ betas' = input.betas
              /\ pc \in AdjAfterLoad =>
                    /\ body_pose' = input.body_pose
                    /\ betas' = input.betas ]_vars

\* a finished run of main() whose output differs from the input in body_pose
\* and in transl, while the loaded arrays still equal the input's
C19_Witness ==
    /\ pc = "done"
    /\ out.transl # input.transl
    /\ out.body_pose # input.body_pose
    /\ transl = input.transl
    /\ body_pose = input.body_pose
    /\ global_orient = input.global_orient
    /\ betas = input.betas
    /\ R_fix # Eye3

\* the command line of rotate_hugs_motion.py for a turn of a degrees about Y
\* alone: no centering, no offset
RotateArgs(a) ==
    [rx |-> 0, ry |-> a, rz |-> 0, center |-> FALSE, tx |-> 0, ty |-> 0, tz |-> 0]

\* C20: for the same angle about Y and the same input, adjust_translation()
\* after its rotation (before it scales and centres) and main() of
\* rotate_hugs_motion.py hold the same rotation in every frame's
\* global_orient and the same rotated translation.
C20_ToolsAgree ==
    pc = "adj_scale" /\ args.rotate_y # 0 =>
        LET r == Transform(RotateArgs(args.rotate_y), input)
        IN  \A t \in 1..Len(global_orient) :
                /\ from_rotvec(global_orient[t]) = axis_angle_to_rotmat(r.global_orient[t])
                /\ transl[t] = r.transl[t]

\* the mean over the frames of column c of a translation array, computed
\* from the frames themselves
MeanOver(A, c) ==
    LET RECURSIVE Sum(_)
        Sum(n) == IF n = 0 THEN QZero ELSE QAdd(Sum(n - 1), A[n][c])
    IN  QDiv(Sum(Len(A)), QInt(Len(A)))

\* C22: the translation saved by adjust_translation() has mean center_y in Y
\* and mean 0 in X and in Z, whatever scale_factor and rotate_y are.
C22_OutputCentred ==
    pc = "adj_done" =>
        /\ MeanOver(out.transl, 2) = QInt(args.center_y)
        /\ MeanOver(out.transl, 1) = QZero
        /\ MeanOver(out.transl, 3) = QZero

\* a finished run with two different frames, a scale of 2, a rotation and a
\* target height that the input did not already have
C22_Witness ==
    /\ pc = "adj_done"
    /\ args.scale_factor = 2 /\ args.center_y = 1 /\ args.rotate_y # 0
    /\ Len(out.transl) = 2 /\ out.transl[1] # out.transl[2]
    /\ MeanOver(input.transl, 2) # QInt(args.center_y)
    /\ MeanOver(input.transl, 1) # QZero
    /\ out.transl # input.transl

ShiftedToCentre(tr, c) ==
    [t \in 1..Len(tr) |->
        << QSub(tr[t][1], MeanOver(tr, 1)),
           QAdd(QSub(tr[t][2], MeanOver(tr, 2)), QInt(c)),
           QSub(tr[t][3], MeanOver(tr, 3)) >>]

\* C29: flip_motion_direction() applied twice with the same center_y gives
\* back the motion up to centring: every global_orient is the same rotation
\* as in the original, body_pose and betas are the original's, and transl is
\* the original's shifted to mean 0 in X and Z and mean center_y in Y.
C29_FlipTwice ==
    pc = "flip_done" =>
        /\ Len(out.global_orient) = Len(input.global_orient)
        /\ \A t \in 1..Len(input.global_orient) :
              from_rotvec(out.global_orient[t]) = from_rotvec(input.global_orient[t])
        /\ out.body_pose = input.body_pose
        /\ out.betas = input.betas
        /\ out.transl = ShiftedToCentre(input.transl, args.center_y)

\* two frames that differ in Z, a root pose that is not the identity, and a
\* translation that the two flips have moved
C29_Witness ==
    /\ pc = "flip_done"
    /\ Len(input.transl) = 2 /\ input.transl[1][3] # input.transl[2][3]
    /\ from_rotvec(input.global_orient[2]) # Eye3
    /\ out.transl # input.transl
    /\ out.transl[1][3] = QSub(input.transl[1][3], MeanOver(input.transl, 3))
    /\ MeanOver(out.transl, 2) = QInt(args.center_y)
    /\ \E i \in 1..Len(input.betas) : input.betas[i] # QZero

\* what C30 says of the output of a finished conversion
ConvertedFromSampleZero ==
    /\ pc = "convert_done"
    /\ Len(out.global_orient) = input.shape[4]
    /\ Len(out.body_pose) = input.shape[4]
    /\ Len(out.transl) = input.shape[4]
    /\ \A t \in 1..input.shape[4] :
          /\ out.global_orient[t] = <<QZero, QZero, QZero>>
          /\ Len(out.body_pose[t]) = BodyWidth
          /\ \A k \in 1..BodyWidth : out.body_pose[t][k] = QZero
          /\ out.transl[t] = [c \in Idx3 |-> input.motion[1][1][c][t]]
    /\ Len(out.betas) = NumBetas
    /\ \A i \in 1..NumBetas : out.betas[i] = QZero

\* C30: for a motion of shape (S, J, 3, F) with S >= 1 the conversion
\* always produces F frames of zero global_orient and body_pose, ten zero
\* betas, and transl[t] = joint 0 of sample 0 at frame t.
C30_ConvertAlways ==
    pc # "convert" /\ input.shape[1] >= 1 => ConvertedFromSampleZero

\* C30 (amended): the same for a motion with at least one joint, J >= 1; a
\* motion without joints makes the conversion fail.
C30_ConvertWithJoints ==
    pc # "convert" /\ input.shape[1] >= 1 =>
        IF input.shape[2] >= 1 THEN ConvertedFromSampleZero
        ELSE pc = "convert_failed" /\ out = Unset

\* two samples and the joints of an MDM motion, two frames: the output has
\* the root of sample 0, which differs from that of sample 1 and from the
\* other joints
C30_Witness ==
    /\ pc = "convert_done"
    /\ input.shape[1] = 2 /\ input.shape[2] = MdmJoints /\ input.shape[4] = 2
    /\ out.transl[2] = [c \in Idx3 |-> input.motion[1][1][c][2]]
    /\ out.transl[2] # [c \in Idx3 |-> input.motion[2][1][c][2]]
    /\ out.transl[2] # [c \in Idx3 |-> input.motion[1][2][c][2]]
    /\ out.transl[1] # out.transl[2]

\* the steps of main() of run_text2hugs.py, without the other programs
T2hStep ==
    \/ T2hValidate \/ T2hMdm \/ T2hLocate \/ T2hExtract \/ T2hCheckNpz
    \/ T2hRotate \/ T2hHugs \/ T2hVideo \/ T2hRecord

\* C21: in a dry run of run_text2hugs no subprocess is ever started, every
\* stage's run_command returns success, the path checks, the results.npy
\* lookup with the extraction, and the video copy are skipped, and the
\* script can always take its next step until it ends with status 0.
C21_DryRunStartsNothing ==
    args.dry_run =>
        /\ started = <<>>
        /\ results_npy = Unset
        /\ pc \notin {"t2h_extract", "t2h_check_npz"}
        /\ fs.final = Unset
        /\ exit_status # <<1>>
        /\ pc # "t2h_exit" => ENABLED T2hStep
        /\ pc \in {"t2h_video", "t2h_record", "t2h_exit"} =>
              executed_commands = <<"mdm", "rotate", "hugs">>
        /\ pc = "t2h_exit" => exit_status = <<0>> /\ fs.record # Unset

\* a dry run that has ended although no repository or interpreter exists
\* and the directories hold files another program wrote meanwhile
C21_Witness ==
    /\ args.dry_run /\ pc = "t2h_exit" /\ exit_status = <<0>>
    /\ fs.paths = {} /\ fs.others > 0
    /\ started = <<>> /\ fs.record # Unset

\* C23: outside a dry run the subprocesses of run_text2hugs are started in
\* the order mdm, extract_smpl, rotate, hugs, each after all earlier ones
\* have exited with code 0; the video is copied and the record written only
\* after all four; after the first failing command, a missing results.npy
\* or a missing npz the script has ended with status 1, nothing was started
\* later and no run record exists.
C23_StrictOrder ==
    ~args.dry_run =>
        /\ Len(started) <= Len(Stages)
        /\ \A i \in 1..Len(started) :
              /\ started[i].stage = Stages[i]
              /\ i < Len(started) =>
                    started[i].code = 0 /\ started[i].at < started[i + 1].at
        /\ (fs.final # Unset \/ fs.record # Unset) =>
              Len(started) = Len(Stages) /\ started[Len(Stages)].code = 0
        /\ fs.record # Unset =>
              pc = "t2h_exit" /\ exit_status = <<0>> /\ final_mp4 # Unset
        /\ (Len(started) > 0 /\ started[Len(started)].code # 0) =>
              pc = "t2h_exit" /\ exit_status = <<1>>
        /\ (pc = "t2h_exit" /\ Len(started) < Len(Stages)) => exit_status = <<1>>
        /\ exit_status = <<1>> =>
              pc = "t2h_exit" /\ fs.record = Unset /\ fs.final = Unset

\* a full run: four commands in order, all with exit code 0, the video
\* copied and the record written
C23_Witness ==
    /\ ~args.dry_run /\ pc = "t2h_exit" /\ exit_status = <<0>>
    /\ Len(started) = Len(Stages)
    /\ \A i \in 1..Len(Stages) : started[i].stage = Stages[i] /\ started[i].code = 0
    /\ fs.final # Unset /\ fs.record # Unset

\* C25: every entry of executed_commands in the run record that
\* run_text2hugs writes is a command that was run as a subprocess and exited
\* with code 0, and the entries are in the order of execution.
C25_RecordedWereRun ==
    fs # Unset /\ fs.record # Unset =>
        LET recorded == fs.record.executed_commands
        IN  /\ Len(recorded) <= Len(started)
            /\ \A i \in 1..Len(recorded) :
                  /\ i <= Len(started)
                  /\ started[i].stage = recorded[i]
                  /\ started[i].code = 0

\* what C26 says of stage 5 and of the record, for the step from s to s'
\* that does the lookup and for the step that writes the record
VideoStepCopiesNewest ==
    /\ (pc = "t2h_video" /\ pc' = "t2h_record") =>
          LET new == { f \in fs.mp4s : f.mtime > before_hugs }
          IN  IF new = {}
              THEN fs'.final = Unset /\ final_mp4' = None
              ELSE /\ fs'.final \in new
                   /\ \A f \in new : f.mtime <= fs'.final.mtime
    /\ (pc = "t2h_record" /\ pc' = "t2h_exit") =>
          /\ exit_status' = <<0>>
          /\ fs'.record # Unset
          /\ fs'.record.final_mp4 = final_mp4
          /\ fs'.final = fs.final

\* C26: in stage 5 of run_text2hugs the file copied to final/result.mp4 is
\* an .mp4 under the HUGS output directory modified strictly after the time
\* taken just before the render command started, and the newest of those;
\* when there is none nothing is copied, final_mp4 is recorded as null and
\* the run still ends by writing its record.
C26_NewestNewVideoAlways == [][VideoStepCopiesNewest]_vars

\* C26 (amended): the same for a run that is not a dry run, where the time
\* taken is the time at which the render command was started.  (A dry run
\* copies nothing and records final/result.mp4.)
C26_NewestNewVideo ==
    [][ ~args.dry_run =>
          /\ VideoStepCopiesNewest
          /\ pc = "t2h_video" => before_hugs = started[Len(Stages)].at ]_vars

\* an old video, the video of this render and a still newer one of another
\* program: the newest was copied
C26_Witness ==
    /\ ~args.dry_run /\ pc = "t2h_exit" /\ exit_status = <<0>>
    /\ fs.final # Unset
    /\ \E f \in fs.mp4s : f.mtime <= before_hugs
    /\ \E f \in fs.mp4s : f.mtime > before_hugs /\ f.mtime < fs.final.mtime
    /\ \A f \in fs.mp4s : f.mtime <= fs.final.mtime
    /\ fs.record.final_mp4 = ResultMp4

\* C27: the results.npy that stage 2 of run_text2hugs hands to
\* extract_smpl_params.py was written by the MDM command of stage 1 of this
\* run, never by an earlier run or by another program running meanwhile.
C27_ResultsOfThisRun ==
    results_npy # Unset => results_npy.by = "this"

\* C24: run_mdm2hugs starts the render only after the rotation has exited
\* with code 0 and writes run_record.json only after both have; when either
\* exits with another code the script ends with status 1, nothing later is
\* started and no record is written.
C24_RenderAfterRotate ==
    /\ Len(started) <= 2
    /\ Len(started) >= 1 => started[1].stage = "rotate"
    /\ Len(started) = 2 =>
          /\ started[2].stage = "hugs"
          /\ started[1].code = 0
          /\ started[1].at < started[2].at
    /\ fs.record # Unset =>
          Len(started) = 2 /\ started[1].code = 0 /\ started[2].code = 0
    /\ \A i \in 1..Len(started) :
          started[i].code # 0 =>
              /\ i = Len(started)
              /\ pc = "m2h_exit" /\ exit_status = <<1>> /\ fs.record = Unset

\* the rotation has succeeded and the render has exited with code 2: the
\* script has ended with status 1 and without a record
C24_Witness ==
    /\ pc = "m2h_exit" /\ exit_status = <<1>>
    /\ Len(started) = 2 /\ started[1].code = 0 /\ started[2].code = 2
    /\ fs.record = Unset

====
